---- MODULE Spec2Model ----
(***************************************************************************)
(* Verification model of the CRM synchronisation and escalation core       *)
(* (backend/services): the OAuth token lifecycle of CRMService, the        *)
(* contact/lead resolver, the document checklist engine and reminder       *)
(* workflow, and the SLA sweep.                                            *)
(*                                                                         *)
(* Concurrency is asyncio's: one task runs at a time and is preempted only *)
(* at an await that really suspends (a network call, or a lock that is     *)
(* held).  Each action below is therefore the code between two such        *)
(* suspension points.                                                      *)
(***************************************************************************)
EXTENDS Integers, Sequences, FiniteSets, TLC

VARIABLES
    \* ---- token lifecycle (CRMService fields and the callers of _request)
    now,            \* the clock, in minutes
    access_token,   \* CRMService.access_token (NoToken = None)
    refresh_token,  \* CRMService.refresh_token (NoToken = None)
    expires_at,     \* CRMService._expires_at (NoExpiry = None)
    tokenFile,      \* contents of the token file (NoFile = absent)
    lockHolder,     \* owner of CRMService._token_lock
    lockWaiters,    \* FIFO queue of asyncio.Lock waiters
    call,           \* per caller: position in _request and what it observed
    refreshCalls,   \* number of POSTs made to /oauth2/access_token
    refreshErrors,  \* number of those answered with an error
    shortIssued,    \* number of refreshes answered with a lifetime <= margin
    \* ---- contact/lead resolver (register_interaction) and the remote CRM
    pipeline_id,    \* CRMService.pipeline_id, shared by all calls
    contacts,       \* CRM contacts: contacts[id] = identity key
    leads,          \* CRM leads: leads[id] = [contact, pipeline, open]
    crmListsClosed, \* whether the CRM lists closed leads when no status is asked
    tasks,          \* CRM tasks: set of [lead, text]
    noteCount,      \* interaction notes posted
    reg,            \* per handler: position in register_interaction, locals
    regStarted,     \* register_interaction calls started so far
    lastSolo,       \* result of the last call, if it ran alone and returned
    prevSolo,       \* result of the call before it, under the same condition
    \* ---- document checklist engine and reminder workflow, on one lead
    docNow,         \* the clock, in hours
    notes,          \* the lead's notes, oldest first: [text, created_at]
    chk,            \* position in check_and_remind and its locals
    ens,            \* position in ensure_document_completeness, locals
    lastCheck,      \* what the last check_and_remind returned and sent
    lastSendAt,     \* when the last standard reminder was sent
    lastEnsure,     \* checklist and created tasks of the last ensure call
    prevEnsure,     \* and of the one before, no task change in between
    docCalls,       \* document calls started so far
    \* ---- SLA sweep
    sweep,          \* position in check_overdue_tasks and its locals
    \* ---- restarts of the service (a new CRMService from the token file)
    restarts,       \* restarts so far
    bootCalls,      \* refreshCalls when the running instance was constructed
    bootFile,       \* the token file it found, NoFile if none
    saveFailed,     \* whether the last write of the token file failed
    \* ---- pipeline classifier (detect_pipeline)
    clsText,        \* subject and message, as a sequence of words
    clsResult,      \* the result of detect_pipeline, NoResult before
    \* ---- notification dispatcher (WhatsAppService)
    waConfig,       \* providers and manager phones configured
    wa,             \* position in send_to_manager / send_notification
    \* ---- entry of register_interaction
    missingConfig,  \* settings absent from the environment
    entry,          \* position in the first statements of the handler
    \* ---- SLA sweep over the CRM task store
    crmClock,       \* the clock, in seconds
    crmTasks,       \* the tasks of the CRM, in the order they were posted
    crmTasks0,      \* the tasks of the CRM before the first sweep
    crmNotes,       \* the notes of the CRM: [lead, title]
    notified,       \* send_to_manager calls made: [task, urgent]
    run,            \* position in check_overdue_tasks and its locals
    handling,       \* the handler call of the sweep, last or running
    sweepsDone,     \* per sweep returned: tasks in the CRM, failures, time
    failures,       \* requests of the sweeps that have failed
    ticks,          \* times the clock has advanced
    \* ---- HTTP boundary
    http,           \* the request being served and its response
    \* ---- model capability (detect_pipeline, extract_deal_data)
    llm,            \* the operation called, the reply and the result
    \* ---- task completion in the CRM
    doneTasks,      \* the tasks an operator has marked completed
    \* ---- concurrent check_and_remind calls on one lead
    rem,            \* per handler: position in check_and_remind
    remNotes,       \* created_at of the reminder notes on the lead
    remSent,        \* the standard reminders sent: when and by whom
    remNow,         \* the clock, in hours
    remCalls,       \* check_and_remind calls made
    remClean        \* no CRM request of these calls has failed

tokVars == <<now, access_token, refresh_token, expires_at, tokenFile,
             lockHolder, lockWaiters, call, refreshCalls, refreshErrors,
             shortIssued>>

regButTasks == <<pipeline_id, contacts, leads, crmListsClosed, noteCount,
                 reg, regStarted, lastSolo, prevSolo>>

regVars == <<regButTasks, tasks>>

docVars == <<docNow, notes, chk, ens, lastCheck, lastSendAt, lastEnsure,
             prevEnsure, docCalls>>

slaVars == <<sweep>>

bootVars == <<restarts, bootCalls, bootFile, saveFailed>>

clsVars == <<clsText, clsResult>>

waVars == <<waConfig, wa>>

cfgVars == <<missingConfig, entry>>

storeVars == <<crmClock, crmTasks, crmTasks0, crmNotes, notified, run,
               handling, sweepsDone, failures, ticks>>

httpVars == <<http>>

llmVars == <<llm>>

crmDoneVars == <<doneTasks>>

remVars == <<rem, remNotes, remSent, remNow, remCalls, remClean>>

\* The components around the core.
outerVars == <<storeVars, httpVars, llmVars, crmDoneVars, remVars>>

\* The core and its configuration.
innerVars == <<tokVars, regVars, docVars, slaVars, bootVars, clsVars, waVars,
               cfgVars>>

auxVars == <<bootVars, clsVars, waVars, cfgVars, outerVars>>

vars == <<tokVars, regVars, docVars, slaVars, auxVars>>

-----------------------------------------------------------------------------
(* Bounds of the model *)

NCallers == 2       \* concurrent callers of _request
MaxTime == 1        \* the clock runs 0..MaxTime

(* Program constants (minutes) *)

Margin == 2             \* timedelta(minutes=2)
DefaultExpiresIn == 60  \* data.get("expires_in", 3600) seconds

NoToken == -1
IssuedRefreshToken == 1  \* a refresh token carried by a token response
NoExpiry == -1
NoHolder == 0
NoFile == <<>>

Callers == 1..NCallers

\* Lifetimes the OAuth endpoint may answer with: one inside the safety
\* margin and the default one, which outlives the model's clock.
ExpiresInChoices == {1, DefaultExpiresIn + MaxTime}

\* Expiry instants a freshly constructed service may have loaded.
InitialExpiries == {NoExpiry, Margin, Margin + 1, DefaultExpiresIn + MaxTime}

-----------------------------------------------------------------------------
(* Token lifecycle: _ensure_access_token, _refresh_token, _request *)

\* crm_service.py:585 and :592 -- the expiry test, used outside and inside
\* the lock.
TokenValid(exp, t) == exp # NoExpiry /\ t < exp - Margin

\* A caller that has not started a request.
IdleCall == [pc |-> "idle", origin |-> "none", attempts |-> 0,
             used1 |-> NoToken, resp1 |-> 0, resp2 |-> 0,
             observed |-> FALSE, seenToken |-> NoToken,
             forced |-> 0, forcedPosts |-> 0, outcome |-> "none"]

\* crm_service.py:557-564 / 569-571 -- build the Authorization header from
\* the current access token and send the HTTP request (suspends).
SendAttempt(c, tok) ==
    IF c.origin = "retry"
    THEN [c EXCEPT !.attempts = @ + 1, !.pc = "http2"]
    ELSE [c EXCEPT !.attempts = @ + 1, !.used1 = tok, !.pc = "http1"]

Raise(c, err) == [c EXCEPT !.pc = "done", !.outcome = err]

\* The lock stays with the caller that leaves the critical section.
KeptHolder == lockHolder

\* asyncio.Lock.release: the lock passes to the first waiter, if any.
ReleasedHolder == IF lockWaiters = <<>> THEN NoHolder ELSE Head(lockWaiters)
ReleasedWaiters == IF lockWaiters = <<>> THEN <<>> ELSE Tail(lockWaiters)

\* No re-check: whoever gets the lock refreshes.
NoRecheck == FALSE

\* crm_service.py:592 -- the re-check made once the lock is held.
RecheckSkipsRefresh == TokenValid(expires_at, now)

\* crm_service.py:591-608 -- body of _refresh_token run by p with the lock
\* held, up to the POST to the token endpoint (or an early exit).
RefreshLocked(p, c) ==
    IF RecheckSkipsRefresh
    THEN \* :593 return; the caller goes on to send its request
         /\ call' = [call EXCEPT ![p] = SendAttempt(c, access_token)]
         /\ lockHolder' = ReleasedHolder
         /\ lockWaiters' = ReleasedWaiters
         /\ UNCHANGED refreshCalls
    ELSE IF refresh_token = NoToken
    THEN \* :596 raise CRMConfigurationError
         /\ call' = [call EXCEPT ![p] = Raise(c, "config_error")]
         /\ lockHolder' = ReleasedHolder
         /\ lockWaiters' = ReleasedWaiters
         /\ UNCHANGED refreshCalls
    ELSE \* :608 POST /oauth2/access_token, lock kept across the await
         /\ call' = [call EXCEPT ![p] =
                        [c EXCEPT !.pc = "oauth",
                                  !.forcedPosts = IF c.origin = "retry"
                                                  THEN @ + 1 ELSE @]]
         /\ lockHolder' = p
         /\ lockWaiters' = lockWaiters
         /\ refreshCalls' = refreshCalls + 1

\* The lock is not looked at: nobody queues.
NeverQueues == TRUE

\* crm_service.py:591 -- async with self._token_lock: taken at once when
\* free, otherwise the caller queues and suspends.
LockFree == lockHolder = NoHolder

EnterRefresh(p, c) ==
    IF LockFree
    THEN RefreshLocked(p, c)
    ELSE /\ call' = [call EXCEPT ![p] = [c EXCEPT !.pc = "wait"]]
         /\ lockWaiters' = Append(lockWaiters, p)
         /\ UNCHANGED <<lockHolder, refreshCalls>>

\* crm_service.py:554-564 with 581-588 -- a caller enters _request: the
\* token check, then either the first HTTP attempt or the refresh.
StartRequest(p) ==
    /\ call[p].pc = "idle"
    /\ IF access_token = NoToken
       THEN \* :583
            /\ call' = [call EXCEPT ![p] = Raise(call[p], "config_error")]
            /\ UNCHANGED <<lockHolder, lockWaiters, refreshCalls>>
       ELSE IF TokenValid(expires_at, now)
       THEN \* :586
            /\ call' = [call EXCEPT ![p] =
                           SendAttempt([call[p] EXCEPT !.origin = "ensure"],
                                       access_token)]
            /\ UNCHANGED <<lockHolder, lockWaiters, refreshCalls>>
       ELSE \* :588
            EnterRefresh(p, [call[p] EXCEPT !.origin = "ensure",
                                            !.observed = TRUE,
                                            !.seenToken = access_token])
    /\ UNCHANGED <<now, access_token, refresh_token, expires_at, tokenFile,
                   refreshErrors, shortIssued>>

\* crm_service.py:591-593 -- a queued caller is handed the lock and runs
\* the body of _refresh_token.
LockGranted(p) ==
    /\ call[p].pc = "wait"
    /\ lockHolder = p
    /\ RefreshLocked(p, call[p])
    /\ UNCHANGED <<now, access_token, refresh_token, expires_at, tokenFile,
                   refreshErrors, shortIssued>>

\* crm_service.py:610-612 -- the token endpoint answers with an error.
RefreshFails(p) ==
    /\ call[p].pc = "oauth"
    /\ call' = [call EXCEPT ![p] = Raise(call[p], "runtime_error")]
    /\ lockHolder' = ReleasedHolder
    /\ lockWaiters' = ReleasedWaiters
    /\ refreshErrors' = refreshErrors + 1
    /\ UNCHANGED <<now, access_token, refresh_token, expires_at, tokenFile,
                   refreshCalls, shortIssued>>

\* crm_service.py:640-650 -- _save_tokens_to_file
SavedTokens(acc, ref, exp) ==
    [access_token |-> acc, refresh_token |-> ref, expires_at |-> exp]

\* crm_service.py:614-620 then 557-564 -- the token endpoint answers with a
\* new token: memory and file are updated, the lock is released and the
\* caller sends its request with the new token.
RefreshSucceeds(p) ==
    /\ call[p].pc = "oauth"
    /\ \E life \in ExpiresInChoices, rotate \in BOOLEAN :
          LET acc == refreshCalls
              ref == IF rotate THEN IssuedRefreshToken ELSE refresh_token
              exp == now + life
          IN  /\ access_token' = acc
              /\ refresh_token' = ref
              /\ expires_at' = exp
              /\ tokenFile' = SavedTokens(acc, ref, exp)
              /\ shortIssued' = IF life <= Margin THEN shortIssued + 1
                                ELSE shortIssued
              /\ call' = [call EXCEPT ![p] = SendAttempt(call[p], acc)]
    /\ lockHolder' = ReleasedHolder
    /\ lockWaiters' = ReleasedWaiters
    /\ UNCHANGED <<now, refreshCalls, refreshErrors>>

\* crm_service.py:564-579 -- the first HTTP response.
FirstResponse(p) ==
    /\ call[p].pc = "http1"
    /\ \E status \in {200, 401, 500} :
          LET c == [call[p] EXCEPT !.resp1 = status]
          IN  IF status = 401
              THEN \* :566-568 forced refresh, then the retry
                   EnterRefresh(p, [c EXCEPT !.origin = "retry",
                                             !.forced = @ + 1])
              ELSE /\ call' = [call EXCEPT ![p] =
                                  IF status = 200
                                  THEN [c EXCEPT !.pc = "done", !.outcome = "ok"]
                                  ELSE Raise(c, "runtime_error")]
                   /\ UNCHANGED <<lockHolder, lockWaiters, refreshCalls>>
    /\ UNCHANGED <<now, access_token, refresh_token, expires_at, tokenFile,
                   refreshErrors, shortIssued>>

\* A retry loop: a 401 on the retry is answered with one more attempt.
RetryAgainOn401(c, status) ==
    IF status = 401 /\ c.attempts < 3
    THEN [c EXCEPT !.resp2 = status, !.attempts = @ + 1]
    ELSE IF status = 200
    THEN [c EXCEPT !.resp2 = status, !.pc = "done", !.outcome = "ok"]
    ELSE Raise([c EXCEPT !.resp2 = status], "runtime_error")

\* crm_service.py:571-579 -- the response to the retry: any error,
\* a second 401 included, is raised.
RetryResult(c, status) ==
    IF status = 200
    THEN [c EXCEPT !.resp2 = status, !.pc = "done", !.outcome = "ok"]
    ELSE Raise([c EXCEPT !.resp2 = status], "runtime_error")

SecondResponse(p) ==
    /\ call[p].pc = "http2"
    /\ \E status \in {200, 401, 500} :
          call' = [call EXCEPT ![p] = RetryResult(call[p], status)]
    /\ UNCHANGED <<now, access_token, refresh_token, expires_at, tokenFile,
                   lockHolder, lockWaiters, refreshCalls, refreshErrors,
                   shortIssued>>

\* The clock advances.
Tick ==
    /\ now < MaxTime
    /\ now' = now + 1
    /\ UNCHANGED <<access_token, refresh_token, expires_at, tokenFile,
                   lockHolder, lockWaiters, call, refreshCalls, refreshErrors,
                   shortIssued>>

\* crm_service.py:57-74 -- the service after construction: tokens from the
\* environment or the token file, expiry from the file only.
InitToken ==
    /\ now = 0
    /\ access_token \in {NoToken, 0}
    /\ refresh_token \in {NoToken, 0}
    /\ expires_at \in InitialExpiries
    /\ tokenFile = IF expires_at = NoExpiry THEN NoFile
                   ELSE SavedTokens(access_token, refresh_token, expires_at)
    /\ lockHolder = NoHolder
    /\ lockWaiters = <<>>
    /\ call = [p \in Callers |-> IdleCall]
    /\ refreshCalls = 0
    /\ refreshErrors = 0
    /\ shortIssued = 0

NextToken ==
    \/ \E p \in Callers : StartRequest(p) /\ UNCHANGED <<regVars, docVars, slaVars, auxVars>>
    \/ \E p \in Callers : LockGranted(p) /\ UNCHANGED <<regVars, docVars, slaVars, auxVars>>
    \/ \E p \in Callers : RefreshFails(p) /\ UNCHANGED <<regVars, docVars, slaVars, auxVars>>
    \/ \E p \in Callers : RefreshSucceeds(p) /\ UNCHANGED <<regVars, docVars, slaVars, auxVars>>
    \/ \E p \in Callers : FirstResponse(p) /\ UNCHANGED <<regVars, docVars, slaVars, auxVars>>
    \/ \E p \in Callers : SecondResponse(p) /\ UNCHANGED <<regVars, docVars, slaVars, auxVars>>
    \/ Tick /\ UNCHANGED <<regVars, docVars, slaVars, auxVars>>

-----------------------------------------------------------------------------
(* Contact/lead resolver: register_interaction against the remote CRM.     *)
(* Every CRM call is one _request; it suspends the caller and either       *)
(* returns or raises.  A write takes effect when its response is ok.       *)

MaxRegCalls == 2        \* register_interaction calls made in a run

DefaultPipeline == 1    \* AMO_PIPELINE_ID
NkuPipeline == 2        \* AMO_PIPELINE_NKU_ID
NoPipeline == 0
NoId == 0
NoKey == "none"

\* The request handlers that may be running register_interaction at the
\* same time (main.py:222-250).
RegCallers == {"h1", "h2"}

\* Identity keys of the contacts in the payloads: email, else phone.
Keys == {"k1", "k2"}

\* pipeline_service.py:193-200 -- the id detect_pipeline returns: the
\* pipeline configured for the detected type, else the default one.
DetectedIds == {DefaultPipeline, NkuPipeline}

Channels == {"email"}

\* Labels of the four checklist entries (crm_service.py:298-303).
DocLabels == {"proposal", "invoice", "contract", "closing"}

\* Checklists sent with an interaction, each given by its false entries;
\* NoChecklist is payload.documents = None.
NoChecklist == {"-"}
RegChecklists == {NoChecklist, {}, {"invoice"}}

NoPrev == [key |-> NoKey, detected |-> NoPipeline, contact |-> NoId,
           lead |-> NoId, newContact |-> FALSE, newLead |-> FALSE]

IdleReg == [pc |-> "idle", key |-> NoKey, detected |-> NoPipeline,
            channel |-> "email", original |-> NoPipeline,
            reqPipeline |-> NoPipeline, contact_id |-> NoId, lead_id |-> NoId,
            newContact |-> FALSE, newLead |-> FALSE, reqTasks |-> {},
            alone |-> FALSE, outcome |-> "none"]

InFlight(c) == c.pc # "idle"

\* The lookup finds nobody: every call creates a contact.
FindNobody(key) == NoId

\* crm_service.py:493-503 -- the CRM's answer to GET /contacts?query=key:
\* the first contact matching the key, NoId when there is none.
FindContact(key) ==
    LET hits == {i \in 1..Len(contacts) : contacts[i] = key}
    IN  IF hits = {} THEN NoId
        ELSE CHOOSE i \in hits : \A j \in hits : i <= j

\* The lead lookup finds no lead whatever the CRM holds.
FindNoOpenLead(contact, pipe) == NoId

\* crm_service.py:542-549 -- the CRM's answer to GET /leads filtered by
\* contact and pipeline: the first such lead, NoId when there is none.  The
\* request names no status, so whether a closed lead is listed is the CRM's
\* choice (crmListsClosed).
FindOpenLead(contact, pipe) ==
    LET hits == {i \in 1..Len(leads) :
                    /\ leads[i].contact = contact
                    /\ leads[i].pipeline = pipe
                    /\ (leads[i].open \/ crmListsClosed)}
    IN  IF hits = {} THEN NoId
        ELSE CHOOSE i \in hits : \A j \in hits : i <= j

\* crm_service.py:278 and :312 -- task texts
FollowUpText(channel) == <<"Follow-up", channel>>
DocTaskText(label) == <<"Send", label>>

\* crm_service.py:51 -- follow_up_hours of a payload that does not set it.
DefaultFollowUpHours == 4

\* crm_service.py:315 -- hours from now to the due time of a document task.
DocTaskDueHours == 8

\* follow_up_hours of the payloads: the payload with key k1 asks for a
\* follow-up at once, the others leave the default.
FollowUpHours(key) == IF key = "k1" THEN 0 ELSE DefaultFollowUpHours

\* The due time is the hour asked for, without a floor.
FollowUpDueAsAsked(hours) == hours

\* crm_service.py:282 -- hours from now to the due time of a follow-up
\* task: max(follow_up_hours, 1).
FollowUpDue(hours) == IF hours > 1 THEN hours ELSE 1

\* Tasks on a lead with a given text.
Copies(lead, text) == {t \in tasks : t.lead = lead /\ t.text = text}

\* POST /api/v4/tasks stores what it is sent: a task with a text the lead
\* already has is one more task (n tells the copies apart); dueIn is
\* complete_till, in hours from the time of the request.
NewTask(lead, text, dueIn) ==
    [lead |-> lead, text |-> text,
     n |-> Cardinality(Copies(lead, text)) + 1, dueIn |-> dueIn]

\* The task list comes back empty whatever the lead holds.
NoTaskTexts(lead) == {}

\* crm_service.py:331-341 -- texts of the tasks the CRM lists for a lead.
TaskTexts(lead) == {t.text : t \in {u \in tasks : u.lead = lead}}

\* crm_service.py:306-314 -- the false checklist entries that have no task
\* with the same text on the lead.
DocTasksToCreate(lead, falseEntries) ==
    {d \in falseEntries : DocTaskText(d) \notin TaskTexts(lead)}

\* crm_service.py:316-329 -- the tasks posted for them.
NewDocTasks(lead, todo) ==
    {NewTask(lead, DocTaskText(d), DocTaskDueHours) : d \in todo}

RegFail(c) == [c EXCEPT !.pc = "done", !.outcome = "runtime_error"]
RegReturn(c) == [c EXCEPT !.pc = "done", !.outcome = "ok"]

\* The returned {contact_id, lead_id} of a call, with what it created.
CallResult(c) ==
    [key |-> c.key, detected |-> c.detected, contact |-> c.contact_id,
     lead |-> c.lead_id, newContact |-> c.newContact, newLead |-> c.newLead]

\* A call ends (returns or raises).  The results of the last two calls are
\* kept when each ran with no other call in flight and returned.
Finish(p, c) ==
    /\ reg' = [reg EXCEPT ![p] =
                  IF c.outcome # "ok" /\ c.newContact
                  THEN \* what the failed call had created stays on record
                       [IdleReg EXCEPT !.outcome = c.outcome,
                                       !.detected = c.detected,
                                       !.alone = c.alone,
                                       !.contact_id = c.contact_id,
                                       !.newContact = TRUE,
                                       !.newLead = c.newLead]
                  ELSE [IdleReg EXCEPT !.outcome = c.outcome,
                                       !.detected = c.detected,
                                       !.alone = c.alone]]
    /\ IF c.alone /\ c.outcome = "ok"
       THEN lastSolo' = CallResult(c) /\ prevSolo' = lastSolo
       ELSE lastSolo' = NoPrev /\ prevSolo' = NoPrev

\* The restore is skipped: the override stays in place.
KeepOverride(c) == pipeline_id

\* crm_service.py:122-124 -- finally: the saved pipeline id is put back.
RestoredPipeline(c) ==
    IF c.detected # NoPipeline THEN c.original ELSE pipeline_id

\* The lookup is made whatever the payload carries.
AlwaysLookup(key) == "findContact"

\* crm_service.py:494-495, 165-171 -- _find_contact returns None at once
\* for a contact with neither email nor phone, which takes _upsert_contact
\* to the create.
FirstStep(key) == IF key = NoKey THEN "createContact" ELSE "findContact"

\* crm_service.py:79-112, 162-178, 493-499 -- a call starts: configuration
\* check, classification and extraction, then the contact lookup (or, with
\* neither email nor phone, the contact create at once).
RegBeginCall(p) ==
    /\ reg[p].pc = "idle"
    /\ regStarted' = regStarted + 1
    /\ \E key \in Keys \cup {NoKey}, det \in DetectedIds, ch \in Channels :
          LET solo == \A q \in RegCallers : ~InFlight(reg[q])
          IN  /\ reg' = [q \in RegCallers |->
                          IF q = p
                          THEN [IdleReg EXCEPT
                                   !.pc = FirstStep(key),
                                   !.key = key, !.detected = det,
                                   !.channel = ch, !.alone = solo]
                          ELSE IF InFlight(reg[q])
                               THEN [reg[q] EXCEPT !.alone = FALSE]
                               ELSE reg[q]]
              /\ lastSolo' = IF solo THEN lastSolo ELSE NoPrev
              /\ prevSolo' = IF solo THEN prevSolo ELSE NoPrev
    /\ UNCHANGED <<crmListsClosed, pipeline_id, contacts, leads, tasks, noteCount>>

\* main.py:222-250 -- a request arrives while no other is being served.
RegBegin(p) ==
    /\ regStarted < MaxRegCalls
    /\ \A q \in RegCallers : ~InFlight(reg[q])
    /\ RegBeginCall(p)

\* main.py:222-250 -- requests served one after the other, the handlers
\* taking turns: h1 serves the first call, h2 the next, and so on.
RegBeginInTurn(p) ==
    /\ p = IF regStarted % Cardinality(RegCallers) = 0 THEN "h1" ELSE "h2"
    /\ RegBegin(p)

\* main.py:222-250 -- a request arrives, whatever else is being served;
\* each handler serves one.
RegBeginConcurrent(p) ==
    /\ regStarted < Cardinality(RegCallers)
    /\ RegBeginCall(p)

\* crm_service.py:165-178 -- the contact lookup answers: update the
\* contact found, or create one.
FindContactResp(p) ==
    /\ reg[p].pc = "findContact"
    /\ \E ok \in BOOLEAN :
          IF ~ok
          THEN Finish(p, RegFail(reg[p]))
          ELSE LET hit == FindContact(reg[p].key)
               IN  /\ reg' = [reg EXCEPT ![p] =
                                 IF hit # NoId
                                 THEN [@ EXCEPT !.pc = "updateContact",
                                                !.contact_id = hit]
                                 ELSE [@ EXCEPT !.pc = "createContact"]]
                   /\ UNCHANGED <<lastSolo, prevSolo>>
    /\ UNCHANGED <<crmListsClosed, pipeline_id, contacts, leads, tasks, noteCount, regStarted>>

\* crm_service.py:114-121, 185-186, 542-547 -- with the contact id known:
\* override the shared pipeline id with the detected one and look the lead
\* up in self.pipeline_id.
StartLeadLookup(p, c) ==
    LET used == IF c.detected # NoPipeline THEN c.detected ELSE pipeline_id
    IN  /\ pipeline_id' = used
        /\ reg' = [reg EXCEPT ![p] =
                      [c EXCEPT !.pc = "findLead", !.original = pipeline_id,
                                !.reqPipeline = used]]
        /\ UNCHANGED <<lastSolo, prevSolo>>

\* crm_service.py:168-169, 505-515 -- the contact update answers.
UpdateContactResp(p) ==
    /\ reg[p].pc = "updateContact"
    /\ \E ok \in BOOLEAN :
          IF ~ok
          THEN Finish(p, RegFail(reg[p])) /\ UNCHANGED pipeline_id
          ELSE StartLeadLookup(p, reg[p])
    /\ UNCHANGED <<crmListsClosed, contacts, leads, tasks, noteCount, regStarted>>

\* crm_service.py:178-183 -- the contact create answers.
CreateContactResp(p) ==
    /\ reg[p].pc = "createContact"
    /\ \E ok \in BOOLEAN :
          IF ~ok
          THEN /\ Finish(p, RegFail(reg[p]))
               /\ UNCHANGED <<pipeline_id, contacts>>
          ELSE /\ contacts' = Append(contacts, reg[p].key)
               /\ StartLeadLookup(p, [reg[p] EXCEPT
                                         !.contact_id = Len(contacts) + 1,
                                         !.newContact = TRUE])
    /\ UNCHANGED <<crmListsClosed, leads, tasks, noteCount, regStarted>>

\* crm_service.py:122-126, 249-274 -- the lead is resolved: restore the
\* pipeline id and post the interaction note.
LeadResolved(p, c) ==
    /\ pipeline_id' = RestoredPipeline(c)
    /\ reg' = [reg EXCEPT ![p] = [c EXCEPT !.pc = "note"]]
    /\ UNCHANGED <<lastSolo, prevSolo>>

\* crm_service.py:122-124 -- a failure inside the try: restore and raise.
LeadFailed(p, c) ==
    /\ pipeline_id' = RestoredPipeline(c)
    /\ Finish(p, RegFail(c))

\* crm_service.py:219-244 -- _sync_lead_context: a PATCH when the metadata
\* carries a budget or a priority, nothing otherwise.
SyncLeadContext(p, c) ==
    \E hasMeta \in BOOLEAN :
        IF hasMeta
        THEN /\ reg' = [reg EXCEPT ![p] = [c EXCEPT !.pc = "syncLead"]]
             /\ UNCHANGED <<pipeline_id, lastSolo, prevSolo>>
        ELSE LeadResolved(p, c)

\* crm_service.py:186-210 -- the lead lookup answers: use the lead found,
\* or create one in self.pipeline_id as it is now.
FindLeadResp(p) ==
    /\ reg[p].pc = "findLead"
    /\ \E ok \in BOOLEAN :
          IF ~ok
          THEN LeadFailed(p, reg[p])
          ELSE LET hit == FindOpenLead(reg[p].contact_id, reg[p].reqPipeline)
               IN  IF hit # NoId
                   THEN SyncLeadContext(p, [reg[p] EXCEPT !.lead_id = hit])
                   ELSE /\ reg' = [reg EXCEPT ![p] =
                                      [@ EXCEPT !.pc = "createLead",
                                                !.reqPipeline = pipeline_id]]
                        /\ UNCHANGED <<pipeline_id, lastSolo, prevSolo>>
    /\ UNCHANGED <<crmListsClosed, contacts, leads, tasks, noteCount, regStarted>>

\* crm_service.py:210-217 -- the lead create answers.
CreateLeadResp(p) ==
    /\ reg[p].pc = "createLead"
    /\ \E ok \in BOOLEAN :
          IF ~ok
          THEN LeadFailed(p, reg[p]) /\ UNCHANGED leads
          ELSE /\ leads' = Append(leads, [contact |-> reg[p].contact_id,
                                          pipeline |-> reg[p].reqPipeline,
                                          open |-> TRUE])
               /\ SyncLeadContext(p, [reg[p] EXCEPT
                                         !.lead_id = Len(leads) + 1,
                                         !.newLead = TRUE])
    /\ UNCHANGED <<crmListsClosed, contacts, tasks, noteCount, regStarted>>

\* crm_service.py:240-244 -- the lead PATCH answers.
SyncLeadResp(p) ==
    /\ reg[p].pc = "syncLead"
    /\ \E ok \in BOOLEAN :
          IF ~ok THEN LeadFailed(p, reg[p]) ELSE LeadResolved(p, reg[p])
    /\ UNCHANGED <<crmListsClosed, contacts, leads, tasks, noteCount, regStarted>>

\* crm_service.py:274-277 -- the note POST answers; the follow-up task
\* check lists the lead's tasks.
NoteResp(p) ==
    /\ reg[p].pc = "note"
    /\ \E ok \in BOOLEAN :
          IF ~ok
          THEN Finish(p, RegFail(reg[p])) /\ UNCHANGED noteCount
          ELSE /\ noteCount' = noteCount + 1
               /\ reg' = [reg EXCEPT ![p] = [@ EXCEPT !.pc = "listFollow"]]
               /\ UNCHANGED <<lastSolo, prevSolo>>
    /\ UNCHANGED <<crmListsClosed, pipeline_id, contacts, leads, tasks, regStarted>>

\* crm_service.py:129-137, 294-305 -- after the follow-up task: list the
\* tasks again when a checklist came with the payload, else return.
AfterFollowUp(p, c) ==
    \E docs \in RegChecklists :
        IF docs = NoChecklist
        THEN Finish(p, RegReturn(c))
        ELSE /\ reg' = [reg EXCEPT ![p] =
                           [c EXCEPT !.pc = "listDocs", !.reqTasks = docs]]
             /\ UNCHANGED <<lastSolo, prevSolo>>

\* crm_service.py:277-292 -- the task list answers: post the follow-up
\* task unless one with the same text is listed.
ListFollowResp(p) ==
    /\ reg[p].pc = "listFollow"
    /\ \E ok \in BOOLEAN :
          IF ~ok
          THEN Finish(p, RegFail(reg[p]))
          ELSE IF FollowUpText(reg[p].channel) \in TaskTexts(reg[p].lead_id)
          THEN AfterFollowUp(p, reg[p])
          ELSE /\ reg' = [reg EXCEPT ![p] = [@ EXCEPT !.pc = "postFollow"]]
               /\ UNCHANGED <<lastSolo, prevSolo>>
    /\ UNCHANGED <<crmListsClosed, pipeline_id, contacts, leads, tasks, noteCount, regStarted>>

\* crm_service.py:292 -- the follow-up task POST answers.
PostFollowResp(p) ==
    /\ reg[p].pc = "postFollow"
    /\ \E ok \in BOOLEAN :
          IF ~ok
          THEN Finish(p, RegFail(reg[p])) /\ UNCHANGED tasks
          ELSE /\ tasks' = tasks \cup
                     {NewTask(reg[p].lead_id, FollowUpText(reg[p].channel),
                              FollowUpDue(FollowUpHours(reg[p].key)))}
               /\ AfterFollowUp(p, reg[p])
    /\ UNCHANGED <<crmListsClosed, pipeline_id, contacts, leads, noteCount, regStarted>>

\* crm_service.py:305-329 -- the task list answers: post one task per
\* false checklist entry that has no task with the same text.
ListDocsResp(p) ==
    /\ reg[p].pc = "listDocs"
    /\ \E ok \in BOOLEAN :
          IF ~ok
          THEN Finish(p, RegFail(reg[p]))
          ELSE LET todo == DocTasksToCreate(reg[p].lead_id, reg[p].reqTasks)
               IN  IF todo = {}
                   THEN Finish(p, RegReturn([reg[p] EXCEPT !.reqTasks = {}]))
                   ELSE /\ reg' = [reg EXCEPT ![p] =
                                      [@ EXCEPT !.pc = "postDocs",
                                                !.reqTasks = todo]]
                        /\ UNCHANGED <<lastSolo, prevSolo>>
    /\ UNCHANGED <<crmListsClosed, pipeline_id, contacts, leads, tasks, noteCount, regStarted>>

\* crm_service.py:329 -- the document task POST answers.
PostDocsResp(p) ==
    /\ reg[p].pc = "postDocs"
    /\ \E ok \in BOOLEAN :
          IF ~ok
          THEN Finish(p, RegFail(reg[p])) /\ UNCHANGED tasks
          ELSE /\ tasks' = tasks \cup
                     NewDocTasks(reg[p].lead_id, reg[p].reqTasks)
               /\ Finish(p, RegReturn([reg[p] EXCEPT !.reqTasks = {}]))
    /\ UNCHANGED <<crmListsClosed, pipeline_id, contacts, leads, noteCount, regStarted>>

\* An operator closes a lead in the CRM.
CloseLead(l) ==
    /\ l \in 1..Len(leads)
    /\ leads[l].open
    /\ leads' = [leads EXCEPT ![l].open = FALSE]
    /\ UNCHANGED <<crmListsClosed, pipeline_id, contacts, tasks, noteCount, reg, lastSolo,
                   prevSolo, regStarted>>

\* crm_service.py:57-74 -- the service after construction, and a CRM
\* account without contacts or leads.
InitRegister ==
    /\ pipeline_id = DefaultPipeline
    /\ contacts = <<>>
    /\ leads = <<>>
    /\ crmListsClosed \in BOOLEAN
    /\ tasks = {}
    /\ noteCount = 0
    /\ reg = [p \in RegCallers |-> IdleReg]
    /\ regStarted = 0
    /\ lastSolo = NoPrev
    /\ prevSolo = NoPrev

NextRegisterSeq ==
    \/ \E p \in RegCallers : RegBegin(p) /\ UNCHANGED <<tokVars, docVars, slaVars, auxVars>>
    \/ \E p \in RegCallers : FindContactResp(p) /\ UNCHANGED <<tokVars, docVars, slaVars, auxVars>>
    \/ \E p \in RegCallers : UpdateContactResp(p) /\ UNCHANGED <<tokVars, docVars, slaVars, auxVars>>
    \/ \E p \in RegCallers : CreateContactResp(p) /\ UNCHANGED <<tokVars, docVars, slaVars, auxVars>>
    \/ \E p \in RegCallers : FindLeadResp(p) /\ UNCHANGED <<tokVars, docVars, slaVars, auxVars>>
    \/ \E p \in RegCallers : CreateLeadResp(p) /\ UNCHANGED <<tokVars, docVars, slaVars, auxVars>>
    \/ \E p \in RegCallers : SyncLeadResp(p) /\ UNCHANGED <<tokVars, docVars, slaVars, auxVars>>
    \/ \E p \in RegCallers : NoteResp(p) /\ UNCHANGED <<tokVars, docVars, slaVars, auxVars>>
    \/ \E p \in RegCallers : ListFollowResp(p) /\ UNCHANGED <<tokVars, docVars, slaVars, auxVars>>
    \/ \E p \in RegCallers : PostFollowResp(p) /\ UNCHANGED <<tokVars, docVars, slaVars, auxVars>>
    \/ \E p \in RegCallers : ListDocsResp(p) /\ UNCHANGED <<tokVars, docVars, slaVars, auxVars>>
    \/ \E p \in RegCallers : PostDocsResp(p) /\ UNCHANGED <<tokVars, docVars, slaVars, auxVars>>
    \/ \E l \in 1..Len(leads) : CloseLead(l) /\ UNCHANGED <<tokVars, docVars, slaVars, auxVars>>

NextRegisterRetry ==
    \/ \E p \in RegCallers : RegBeginInTurn(p) /\ UNCHANGED <<tokVars, docVars, slaVars, auxVars>>
    \/ \E p \in RegCallers : FindContactResp(p) /\ UNCHANGED <<tokVars, docVars, slaVars, auxVars>>
    \/ \E p \in RegCallers : UpdateContactResp(p) /\ UNCHANGED <<tokVars, docVars, slaVars, auxVars>>
    \/ \E p \in RegCallers : CreateContactResp(p) /\ UNCHANGED <<tokVars, docVars, slaVars, auxVars>>
    \/ \E p \in RegCallers : FindLeadResp(p) /\ UNCHANGED <<tokVars, docVars, slaVars, auxVars>>
    \/ \E p \in RegCallers : CreateLeadResp(p) /\ UNCHANGED <<tokVars, docVars, slaVars, auxVars>>
    \/ \E p \in RegCallers : SyncLeadResp(p) /\ UNCHANGED <<tokVars, docVars, slaVars, auxVars>>
    \/ \E p \in RegCallers : NoteResp(p) /\ UNCHANGED <<tokVars, docVars, slaVars, auxVars>>
    \/ \E p \in RegCallers : ListFollowResp(p) /\ UNCHANGED <<tokVars, docVars, slaVars, auxVars>>
    \/ \E p \in RegCallers : PostFollowResp(p) /\ UNCHANGED <<tokVars, docVars, slaVars, auxVars>>
    \/ \E p \in RegCallers : ListDocsResp(p) /\ UNCHANGED <<tokVars, docVars, slaVars, auxVars>>
    \/ \E p \in RegCallers : PostDocsResp(p) /\ UNCHANGED <<tokVars, docVars, slaVars, auxVars>>
    \/ \E l \in 1..Len(leads) : CloseLead(l) /\ UNCHANGED <<tokVars, docVars, slaVars, auxVars>>

NextRegister ==
    \/ \E p \in RegCallers : RegBeginConcurrent(p) /\ UNCHANGED <<tokVars, docVars, slaVars, auxVars>>
    \/ \E p \in RegCallers : FindContactResp(p) /\ UNCHANGED <<tokVars, docVars, slaVars, auxVars>>
    \/ \E p \in RegCallers : UpdateContactResp(p) /\ UNCHANGED <<tokVars, docVars, slaVars, auxVars>>
    \/ \E p \in RegCallers : CreateContactResp(p) /\ UNCHANGED <<tokVars, docVars, slaVars, auxVars>>
    \/ \E p \in RegCallers : FindLeadResp(p) /\ UNCHANGED <<tokVars, docVars, slaVars, auxVars>>
    \/ \E p \in RegCallers : CreateLeadResp(p) /\ UNCHANGED <<tokVars, docVars, slaVars, auxVars>>
    \/ \E p \in RegCallers : SyncLeadResp(p) /\ UNCHANGED <<tokVars, docVars, slaVars, auxVars>>
    \/ \E p \in RegCallers : NoteResp(p) /\ UNCHANGED <<tokVars, docVars, slaVars, auxVars>>
    \/ \E p \in RegCallers : ListFollowResp(p) /\ UNCHANGED <<tokVars, docVars, slaVars, auxVars>>
    \/ \E p \in RegCallers : PostFollowResp(p) /\ UNCHANGED <<tokVars, docVars, slaVars, auxVars>>
    \/ \E p \in RegCallers : ListDocsResp(p) /\ UNCHANGED <<tokVars, docVars, slaVars, auxVars>>
    \/ \E p \in RegCallers : PostDocsResp(p) /\ UNCHANGED <<tokVars, docVars, slaVars, auxVars>>
    \/ \E l \in 1..Len(leads) : CloseLead(l) /\ UNCHANGED <<tokVars, docVars, slaVars, auxVars>>

-----------------------------------------------------------------------------
(* Document checklist engine and reminder workflow, on one lead of the     *)
(* CRM.  Times are in hours.  The calls are served one after the other and *)
(* a call takes no time on the clock.                                      *)

HoursPerStep == 12      \* the clock advances by this much
MaxDocHours == 96       \* and stops here
MaxDocCalls == 3        \* calls made in a run

reminder_interval_hours == 24   \* DocumentControlService.__init__
urgent_threshold_days == 3      \* DocumentControlService.__init__
HoursPerDay == 24               \* 86400 / 3600

NoTime == 0             \* no timestamp: None, or a falsy created_at
DocLead == 1            \* id of the lead under document control

\* crm_service.py:463-470 -- the keys of the file checklist.
FileDocKeys == {"proposal", "invoice", "contract", "waybill", "act",
                "invoice_factura"}

\* Missing-document sets the file check may report.
MissingChoices == {{}, {"invoice"}, {"invoice", "contract"}}

\* Checklists given to ensure_document_completeness, each by its false
\* entries.
EnsureChecklists == {{}, {"invoice"}, {"invoice", "contract"}}

\* document_control_service.py:136 -- text of a reminder workflow task.
AttachTaskText(doc) == <<"Attach", doc>>

\* crm_service.py:343-346 -- add_lead_note joins title and details.  Texts
\* are sequences of words, transliterated.
NoteText(title, details) == title \o <<"---">> \o details

\* document_control_service.py:201-205 -- the note _record_reminder_time
\* writes ("Напоминание о документах" / "Отправлено напоминание менеджеру
\* о недостающих документах. Время: ...").
ReminderNoteText ==
    NoteText(<<"Napominanie", "o", "dokumentah">>,
             <<"Otpravleno", "napominanie", "menedzheru", "o",
               "nedostayushchih", "dokumentah", "Vremya">>)

\* document_control_service.py:211-217 -- the note _update_document_status
\* writes ("Статус закрывающих документов" / "Не полный").
StatusNoteText ==
    NoteText(<<"Status", "zakryvayushchih", "dokumentov">>,
             <<"Ne", "polnyj">>)

\* Python's `phrase in text`, on word sequences.
Contains(text, phrase) ==
    \E i \in 1..(Len(text) - Len(phrase) + 1) :
        SubSeq(text, i, i + Len(phrase) - 1) = phrase

\* document_control_service.py:165 -- phrases that mark a reminder note
\* ("Напоминание о документах", "не хватает документов").
CooldownMarkers == {<<"Napominanie", "o", "dokumentah">>,
                    <<"ne", "hvataet", "dokumentov">>}

\* document_control_service.py:184 -- phrase that marks the first reminder
\* ("не хватает документов").
FirstReminderMarker == <<"ne", "hvataet", "dokumentov">>

\* document_control_service.py:163-171 -- the newest note carrying a
\* cool-down marker and a timestamp.
LastReminderTime ==
    LET hits == {i \in 1..Len(notes) :
                    /\ \E m \in CooldownMarkers : Contains(notes[i].text, m)
                    /\ notes[i].created_at # NoTime}
    IN  IF hits = {} THEN NoTime
        ELSE notes[CHOOSE i \in hits : \A j \in hits : j <= i].created_at

\* document_control_service.py:182-191 -- whole days since the oldest note
\* carrying the first-reminder marker; 0 when there is none.
DaysSinceFirstReminder ==
    LET hits == {i \in 1..Len(notes) :
                    /\ Contains(notes[i].text, FirstReminderMarker)
                    /\ notes[i].created_at # NoTime}
    IN  IF hits = {} THEN 0
        ELSE (docNow - notes[CHOOSE i \in hits : \A j \in hits : i <= j]
                           .created_at) \div HoursPerDay

IdleChk == [pc |-> "idle", missing |-> {}, todo |-> {}, std |-> 0,
            urg |-> 0, sentBefore |-> NoTime]

NoCheck == [status |-> "none", at |-> NoTime, hours_until_next |-> 0,
            missing |-> {}, std |-> 0, urg |-> 0, sentBefore |-> NoTime]

IdleEns == [pc |-> "idle", docs |-> {}, todo |-> {}, before |-> {}]

NoEnsure == [docs |-> {"-"}, before |-> {}, created |-> {}]

DocsIdle == chk.pc = "idle" /\ ens.pc = "idle"

\* check_and_remind returns a status.
ChkReturn(c, status, hoursLeft) ==
    /\ chk' = IdleChk
    /\ lastCheck' = [status |-> status, at |-> docNow,
                     hours_until_next |-> hoursLeft, missing |-> c.missing,
                     std |-> c.std, urg |-> c.urg,
                     sentBefore |-> c.sentBefore]

\* document_control_service.py:32-37 -- check_and_remind is called: the
\* file check asks for the lead's files.
CheckBegin ==
    /\ DocsIdle
    /\ docCalls < MaxDocCalls
    /\ docCalls' = docCalls + 1
    /\ chk' = [IdleChk EXCEPT !.pc = "files", !.sentBefore = lastSendAt]
    /\ UNCHANGED <<docNow, notes, ens, lastCheck, lastSendAt, lastEnsure,
                   prevEnsure, tasks>>

\* crm_service.py:456-488, document_control_service.py:39-58 -- the files
\* request answers.  A failure gives an empty checklist, hence "unknown";
\* a full set gives "complete"; else the notes are asked for.
FilesResp ==
    /\ chk.pc = "files"
    /\ \E ok \in BOOLEAN, missing \in MissingChoices :
          IF ~ok
          THEN ChkReturn(chk, "unknown", 0)
          ELSE IF missing = {}
          THEN ChkReturn(chk, "complete", 0)
          ELSE /\ chk' = [chk EXCEPT !.pc = "lastReminder",
                                     !.missing = missing]
               /\ UNCHANGED lastCheck
    /\ UNCHANGED <<docNow, notes, ens, lastSendAt, lastEnsure, prevEnsure,
                   docCalls, tasks>>

\* document_control_service.py:58-84, 157-174 -- the notes request answers
\* (a failure reads as no reminder): return inside the cool-down, else get
\* the lead's name and send the standard reminder; send_to_manager never
\* raises.
LastReminderResp ==
    /\ chk.pc = "lastReminder"
    /\ \E ok \in BOOLEAN :
          LET last_reminder == IF ok THEN LastReminderTime ELSE NoTime
              hours_since_reminder == docNow - last_reminder
          IN  IF /\ last_reminder # NoTime
                 /\ hours_since_reminder < reminder_interval_hours
              THEN /\ ChkReturn(chk, "reminder_sent_recently",
                         reminder_interval_hours - hours_since_reminder)
                   /\ UNCHANGED lastSendAt
              ELSE /\ chk' = [chk EXCEPT !.pc = "listTasks", !.std = 1]
                   /\ lastSendAt' = docNow
                   /\ UNCHANGED lastCheck
    /\ UNCHANGED <<docNow, notes, ens, lastEnsure, prevEnsure, docCalls,
                   tasks>>

\* document_control_service.py:130-151 -- the task list answers: post a
\* task per missing document without a task of the same text.  A failure
\* here is not caught in the helper and ends the call with "error".
ChkListTasksResp ==
    /\ chk.pc = "listTasks"
    /\ \E ok \in BOOLEAN :
          IF ~ok
          THEN ChkReturn(chk, "error", 0)
          ELSE LET todo == {d \in chk.missing :
                              AttachTaskText(d) \notin TaskTexts(DocLead)}
               IN  /\ chk' = [chk EXCEPT
                                !.pc = IF todo = {} THEN "recordNote"
                                       ELSE "postTasks",
                                !.todo = todo]
                   /\ UNCHANGED lastCheck
    /\ UNCHANGED <<docNow, notes, ens, lastSendAt, lastEnsure, prevEnsure,
                   docCalls, tasks>>

\* document_control_service.py:151-155 -- the task POST answers; a failure
\* is logged and dropped.
ChkPostTasksResp ==
    /\ chk.pc = "postTasks"
    /\ \E ok \in BOOLEAN :
          IF ok
          THEN /\ tasks' = tasks \cup
                     {NewTask(DocLead, AttachTaskText(d), DocTaskDueHours) :
                         d \in chk.todo}
               /\ lastEnsure' = NoEnsure
               /\ prevEnsure' = NoEnsure
          ELSE UNCHANGED <<tasks, lastEnsure, prevEnsure>>
    /\ chk' = [chk EXCEPT !.pc = "recordNote", !.todo = {}]
    /\ UNCHANGED <<docNow, notes, ens, lastCheck, lastSendAt, docCalls>>

\* document_control_service.py:198-207 -- the reminder note POST answers; a
\* failure is logged and dropped.
RecordNoteResp ==
    /\ chk.pc = "recordNote"
    /\ \E ok \in BOOLEAN :
          notes' = IF ok
                   THEN Append(notes, [text |-> ReminderNoteText,
                                       created_at |-> docNow])
                   ELSE notes
    /\ chk' = [chk EXCEPT !.pc = "firstReminder"]
    /\ UNCHANGED <<docNow, ens, lastCheck, lastSendAt, lastEnsure,
                   prevEnsure, docCalls, tasks>>

\* document_control_service.py:93-99, 176-196 -- the notes request answers
\* (a failure reads as 0 days): send the urgent notification when the
\* first reminder is urgent_threshold_days old.
FirstReminderResp ==
    /\ chk.pc = "firstReminder"
    /\ \E ok \in BOOLEAN :
          LET days == IF ok THEN DaysSinceFirstReminder ELSE 0
          IN  chk' = [chk EXCEPT
                        !.pc = "status",
                        !.urg = IF days >= urgent_threshold_days THEN 1
                                ELSE 0]
    /\ UNCHANGED <<docNow, notes, ens, lastCheck, lastSendAt, lastEnsure,
                   prevEnsure, docCalls, tasks>>

\* The call that sent a reminder reports the lead complete.
ReportedComplete == "complete"

\* document_control_service.py:104-109 -- the status of a call that sent
\* the reminder.
ReminderSentStatus == "reminder_sent"

\* document_control_service.py:102-109, 209-219 -- the status note POST
\* answers (a failure is logged and dropped); the call returns.
StatusResp ==
    /\ chk.pc = "status"
    /\ \E ok \in BOOLEAN :
          notes' = IF ok
                   THEN Append(notes, [text |-> StatusNoteText,
                                       created_at |-> docNow])
                   ELSE notes
    /\ ChkReturn(chk, ReminderSentStatus, 0)
    /\ UNCHANGED <<docNow, ens, lastSendAt, lastEnsure, prevEnsure, docCalls,
                   tasks>>

\* ensure_document_completeness raises: the record of the calls that
\* returned in a row starts anew.
EnsRaise ==
    /\ ens' = IdleEns
    /\ lastEnsure' = NoEnsure
    /\ prevEnsure' = NoEnsure

\* ensure_document_completeness returns, having created the given tasks.
EnsReturn(c, created) ==
    /\ ens' = IdleEns
    /\ prevEnsure' = lastEnsure
    /\ lastEnsure' = [docs |-> c.docs, before |-> c.before,
                      created |-> created]

\* crm_service.py:139-156, 294-305 -- ensure_document_completeness is
\* called with a checklist: the lead's tasks are asked for.
EnsureBegin ==
    /\ DocsIdle
    /\ docCalls < MaxDocCalls
    /\ docCalls' = docCalls + 1
    /\ \E docs \in EnsureChecklists :
          ens' = [IdleEns EXCEPT !.pc = "list", !.docs = docs,
                                 !.before = TaskTexts(DocLead)]
    /\ UNCHANGED <<docNow, notes, chk, lastCheck, lastSendAt, lastEnsure,
                   prevEnsure, tasks>>

\* crm_service.py:305-327 -- the task list answers: nothing to create
\* returns at once.
EnsListResp ==
    /\ ens.pc = "list"
    /\ \E ok \in BOOLEAN :
          IF ~ok
          THEN EnsRaise
          ELSE LET todo == DocTasksToCreate(DocLead, ens.docs)
               IN  IF todo = {}
                   THEN EnsReturn(ens, {})
                   ELSE /\ ens' = [ens EXCEPT !.pc = "post", !.todo = todo]
                        /\ UNCHANGED <<lastEnsure, prevEnsure>>
    /\ UNCHANGED <<docNow, notes, chk, lastCheck, lastSendAt, docCalls,
                   tasks>>

\* crm_service.py:329, 156-157 -- the task POST answers.
EnsPostResp ==
    /\ ens.pc = "post"
    /\ \E ok \in BOOLEAN :
          IF ~ok
          THEN EnsRaise /\ UNCHANGED tasks
          ELSE /\ tasks' = tasks \cup NewDocTasks(DocLead, ens.todo)
               /\ EnsReturn(ens, {t.text : t \in tasks' \ tasks})
    /\ UNCHANGED <<docNow, notes, chk, lastCheck, lastSendAt, docCalls>>

\* Time passes between calls.
DocTick ==
    /\ DocsIdle
    /\ docNow + HoursPerStep <= MaxDocHours
    /\ docNow' = docNow + HoursPerStep
    /\ UNCHANGED <<notes, chk, ens, lastCheck, lastSendAt, lastEnsure,
                   prevEnsure, docCalls, tasks>>

\* document_control_service.py:28-30 -- the service after construction;
\* the lead has no notes.
InitDocs ==
    /\ docNow = HoursPerStep
    /\ notes = <<>>
    /\ chk = IdleChk
    /\ ens = IdleEns
    /\ lastCheck = NoCheck
    /\ lastSendAt = NoTime
    /\ lastEnsure = NoEnsure
    /\ prevEnsure = NoEnsure
    /\ docCalls = 0

NextDocs ==
    \/ CheckBegin /\ UNCHANGED <<tokVars, regButTasks, slaVars, auxVars>>
    \/ FilesResp /\ UNCHANGED <<tokVars, regButTasks, slaVars, auxVars>>
    \/ LastReminderResp /\ UNCHANGED <<tokVars, regButTasks, slaVars, auxVars>>
    \/ ChkListTasksResp /\ UNCHANGED <<tokVars, regButTasks, slaVars, auxVars>>
    \/ ChkPostTasksResp /\ UNCHANGED <<tokVars, regButTasks, slaVars, auxVars>>
    \/ RecordNoteResp /\ UNCHANGED <<tokVars, regButTasks, slaVars, auxVars>>
    \/ FirstReminderResp /\ UNCHANGED <<tokVars, regButTasks, slaVars, auxVars>>
    \/ StatusResp /\ UNCHANGED <<tokVars, regButTasks, slaVars, auxVars>>
    \/ EnsureBegin /\ UNCHANGED <<tokVars, regButTasks, slaVars, auxVars>>
    \/ EnsListResp /\ UNCHANGED <<tokVars, regButTasks, slaVars, auxVars>>
    \/ EnsPostResp /\ UNCHANGED <<tokVars, regButTasks, slaVars, auxVars>>
    \/ DocTick /\ UNCHANGED <<tokVars, regButTasks, slaVars, auxVars>>

-----------------------------------------------------------------------------
(* SLA sweep: check_overdue_tasks.  Times are in seconds.                  *)

MaxSweepTasks == 2      \* tasks the CRM returns to a sweep
SweepNow == 100000      \* the instant of the sweep

overdue_threshold_hours == 1    \* SLAMonitorService.__init__
urgent_threshold_hours == 4     \* SLAMonitorService.__init__
SecondsPerHour == 3600          \* total_seconds() / 3600

NoDue == 0              \* complete_till absent, None or 0

\* How long before the sweep the fetched tasks fell due.
DueOffsets == {0 - 1800, 0, 1800, 3599, 3600, 5400, 14399, 14400, 18000}

\* Tasks the CRM may return.
SweepTasks ==
    [is_completed : BOOLEAN,
     complete_till : {NoDue} \cup {SweepNow - e : e \in DueOffsets}]

RECURSIVE SeqsUpTo(_, _)
SeqsUpTo(S, n) ==
    IF n = 0 THEN {<<>>}
    ELSE LET shorter == SeqsUpTo(S, n - 1)
         IN  shorter \cup {Append(q, x) : q \in shorter, x \in S}

\* The branches are tested in the other order: a task is overdue as soon
\* as it passes the lower threshold.
ClassifyOverdueFirst(due_time, t) ==
    IF due_time >= t THEN "skip"
    ELSE IF t - due_time >= overdue_threshold_hours * SecondsPerHour
    THEN "overdue"
    ELSE IF t - due_time >= urgent_threshold_hours * SecondsPerHour
    THEN "urgent"
    ELSE "skip"

\* sla_monitor_service.py:61-73 -- the class of a task due at due_time in a
\* sweep made at t.
Classify(due_time, t) ==
    IF due_time >= t THEN "skip"
    ELSE IF t - due_time >= urgent_threshold_hours * SecondsPerHour
    THEN "urgent"
    ELSE IF t - due_time >= overdue_threshold_hours * SecondsPerHour
    THEN "overdue"
    ELSE "skip"

\* whatsapp_service.py:89-100 -- the statuses send_to_manager reports.
ManagerStatuses == {"sent", "failed", "placeholder"}

\* Only a notification the dispatcher reported as sent is counted.
CountedIfSent(status) == IF status = "sent" THEN 1 ELSE 0

\* sla_monitor_service.py:68-73 -- the handler's result is not looked at:
\* the notification is counted whatever the dispatcher reported.
Counted(status) == 1

IdleSweep == [pc |-> "idle", fetched |-> <<>>, next |-> 1, now |-> 0,
              checked |-> 0, overdue |-> 0, urgent |-> 0,
              notifications_sent |-> 0, reported |-> <<>>]

\* sla_monitor_service.py:23-38, 82-91 -- a sweep over all leads starts.
SweepBegin ==
    /\ sweep.pc = "idle"
    /\ sweep' = [IdleSweep EXCEPT !.pc = "fetch"]

\* sla_monitor_service.py:91-102, 43-46 -- the task fetch answers (a
\* failure reads as no tasks); the sweep takes the time.
FetchTasksResp ==
    /\ sweep.pc = "fetch"
    /\ \E ok \in BOOLEAN, listed \in SeqsUpTo(SweepTasks, MaxSweepTasks) :
          sweep' = [sweep EXCEPT !.pc = "scan",
                                 !.fetched = IF ok THEN listed ELSE <<>>,
                                 !.now = SweepNow]

\* sla_monitor_service.py:48-73 -- the loop takes the next task: completed
\* tasks and tasks without a due time are passed over, the others are
\* classified and counted, and the handler of the class is entered.
ClassifyTask ==
    /\ sweep.pc = "scan"
    /\ sweep.next <= Len(sweep.fetched)
    /\ LET task == sweep.fetched[sweep.next]
           class == IF task.is_completed \/ task.complete_till = NoDue
                    THEN "skip"
                    ELSE Classify(task.complete_till, sweep.now)
       IN  sweep' =
             IF class = "urgent"
             THEN [sweep EXCEPT !.pc = "urgent", !.urgent = @ + 1]
             ELSE IF class = "overdue"
             THEN [sweep EXCEPT !.pc = "overdue", !.overdue = @ + 1]
             ELSE [sweep EXCEPT !.next = @ + 1]

\* sla_monitor_service.py:68-70, 159-190 -- _handle_urgent_task is through
\* (nothing it does raises): the dispatcher has reported a status to it.
UrgentHandled ==
    /\ sweep.pc = "urgent"
    /\ \E status \in ManagerStatuses :
          sweep' = [sweep EXCEPT
                      !.pc = "scan", !.next = @ + 1,
                      !.notifications_sent = @ + Counted(status),
                      !.reported = Append(@, status)]

\* sla_monitor_service.py:71-73, 104-157 -- _handle_overdue_task is
\* through (nothing it does raises): the dispatcher has reported a status
\* to it.
OverdueHandled ==
    /\ sweep.pc = "overdue"
    /\ \E status \in ManagerStatuses :
          sweep' = [sweep EXCEPT
                      !.pc = "scan", !.next = @ + 1,
                      !.notifications_sent = @ + Counted(status),
                      !.reported = Append(@, status)]

\* sla_monitor_service.py:75-80 -- the loop is over: the sweep returns its
\* counts.
SweepReturn ==
    /\ sweep.pc = "scan"
    /\ sweep.next > Len(sweep.fetched)
    /\ sweep' = [sweep EXCEPT !.pc = "done",
                              !.checked = Len(sweep.fetched)]

\* The result is consumed; the next sweep may start.
SweepConsumed ==
    /\ sweep.pc = "done"
    /\ sweep' = IdleSweep

\* sla_monitor_service.py:19-21 -- no sweep running.
InitSla == sweep = IdleSweep

NextSla ==
    \/ SweepBegin /\ UNCHANGED <<tokVars, regVars, docVars, auxVars>>
    \/ FetchTasksResp /\ UNCHANGED <<tokVars, regVars, docVars, auxVars>>
    \/ ClassifyTask /\ UNCHANGED <<tokVars, regVars, docVars, auxVars>>
    \/ UrgentHandled /\ UNCHANGED <<tokVars, regVars, docVars, auxVars>>
    \/ OverdueHandled /\ UNCHANGED <<tokVars, regVars, docVars, auxVars>>
    \/ SweepReturn /\ UNCHANGED <<tokVars, regVars, docVars, auxVars>>
    \/ SweepConsumed /\ UNCHANGED <<tokVars, regVars, docVars, auxVars>>

-----------------------------------------------------------------------------
(* Notification dispatcher: send_notification, send_to_manager, and the  *)
(* handlers that notify the manager and then write to the CRM.           *)

MaxPhones == 2      \* manager phones configured
MaxWaCalls == 2     \* calls made in a run

\* whatsapp_service.py:17-32 -- what the environment may configure; phone
\* numbers are kept as their count.
WaConfigs ==
    [dialog360_api_key : BOOLEAN, cloud_api_token : BOOLEAN,
     cloud_api_phone_id : BOOLEAN, manager_phones : 0..MaxPhones,
     manager_urgent_phone : BOOLEAN]

NoWaConfig ==
    [dialog360_api_key |-> FALSE, cloud_api_token |-> FALSE,
     cloud_api_phone_id |-> FALSE, manager_phones |-> 0,
     manager_urgent_phone |-> FALSE]

\* What a provider may do with a message: accept it, answer with an
\* error, or fail with an exception (timeout, connection refused).
Answers == {"sent", "failed", "raised"}

\* sla_monitor_service.py:125, :179, document_control_service.py:84 --
\* the handlers that notify the manager.
Handlers == {"overdue", "urgent", "remind"}

\* The Cloud API is tried before 360dialog.
ProvidersCloudFirst(cfg) ==
    (IF cfg.cloud_api_token /\ cfg.cloud_api_phone_id
     THEN <<"cloud_api">> ELSE <<>>)
    \o (IF cfg.dialog360_api_key THEN <<"360dialog">> ELSE <<>>)

\* whatsapp_service.py:53-69 -- the configured providers in the order
\* send_notification tries them.
Providers(cfg) ==
    (IF cfg.dialog360_api_key THEN <<"360dialog">> ELSE <<>>)
    \o (IF cfg.cloud_api_token /\ cfg.cloud_api_phone_id
        THEN <<"cloud_api">> ELSE <<>>)

IdleWa == [pc |-> "idle", caller |-> "none", via |-> "none",
           urgent |-> FALSE, entity |-> FALSE, phone |-> FALSE, left |-> 0,
           tried |-> <<>>, answers |-> <<>>, result |-> "none",
           anySent |-> FALSE, status |-> "none", outcome |-> "none",
           writes |-> <<>>, calls |-> 0]

\* whatsapp_service.py:50-73 -- send_notification up to its first await:
\* an empty phone number is refused, the first configured provider is
\* called, or the placeholder is returned.
StartSend(c, phone) ==
    LET plan == Providers(waConfig)
        fresh == [c EXCEPT !.phone = phone, !.tried = <<>>,
                           !.answers = <<>>, !.result = "none"]
    IN  IF ~phone
        THEN [fresh EXCEPT !.pc = "sendDone", !.result = "failed"]
        ELSE IF plan = <<>>
        THEN [fresh EXCEPT !.pc = "sendDone", !.result = "placeholder"]
        ELSE [fresh EXCEPT !.pc = "provider", !.tried = <<plan[1]>>]

\* The handler stops when the notification was not sent.
AfterNotifyAbortUnlessSent(caller, status) ==
    IF status # "sent" THEN "done"
    ELSE IF caller = "overdue" THEN "renewalTask"
    ELSE IF caller = "urgent" THEN "auditNote"
    ELSE "remediationTasks"

\* sla_monitor_service.py:125-128, :179-181, document_control_service.py:
\* 84-87 -- the statement a handler goes on with after send_to_manager has
\* returned; the returned status is not looked at.
AfterNotify(caller, status) ==
    IF caller = "overdue" THEN "renewalTask"
    ELSE IF caller = "urgent" THEN "auditNote"
    ELSE "remediationTasks"

\* whatsapp_service.py:34-49 -- send_notification is called directly.
SendNotificationCall ==
    /\ wa.pc = "idle"
    /\ wa.calls < MaxWaCalls
    /\ \E phone \in BOOLEAN, urgent \in BOOLEAN :
          wa' = StartSend([IdleWa EXCEPT !.via = "direct",
                                         !.urgent = urgent,
                                         !.calls = wa.calls + 1], phone)
    /\ UNCHANGED waConfig

\* whatsapp_service.py:75-97 -- a handler calls send_to_manager: without
\* a phone to send to the placeholder is returned, else the first phone is
\* notified.
HandlerNotifies ==
    /\ wa.pc = "idle"
    /\ wa.calls < MaxWaCalls
    /\ \E caller \in Handlers, entity \in BOOLEAN :
          LET urgent == caller = "urgent"
              phones == IF urgent /\ waConfig.manager_urgent_phone THEN 1
                        ELSE waConfig.manager_phones
              c == [IdleWa EXCEPT !.via = "manager", !.caller = caller,
                                  !.urgent = urgent,
                                  !.entity = entity \/ caller = "remind",
                                  !.calls = wa.calls + 1]
          IN  wa' = IF phones = 0
                    THEN [c EXCEPT !.status = "placeholder",
                                   !.pc = AfterNotify(caller, "placeholder")]
                    ELSE StartSend([c EXCEPT !.left = phones - 1], TRUE)
    /\ UNCHANGED waConfig

\* whatsapp_service.py:53-73 -- a provider has answered: 'sent' is
\* returned at once; an error answer or an exception falls through to the
\* next configured provider and, after the last, to the placeholder.
ProviderAnswered(answer) ==
    LET plan == Providers(waConfig)
        c == [wa EXCEPT !.answers = Append(@, answer)]
        k == Len(wa.tried)
    IN  wa' = IF answer = "sent"
              THEN [c EXCEPT !.pc = "sendDone", !.result = "sent"]
              ELSE IF k < Len(plan)
              THEN [c EXCEPT !.tried = Append(@, plan[k + 1])]
              ELSE [c EXCEPT !.pc = "sendDone", !.result = "placeholder"]

\* whatsapp_service.py:54-60, 102-123 -- 360dialog answers.
PrimaryResp ==
    /\ wa.pc = "provider"
    /\ wa.tried[Len(wa.tried)] = "360dialog"
    /\ \E answer \in Answers : ProviderAnswered(answer)
    /\ UNCHANGED waConfig

\* whatsapp_service.py:63-69, 125-146 -- the Cloud API answers.
SecondaryResp ==
    /\ wa.pc = "provider"
    /\ wa.tried[Len(wa.tried)] = "cloud_api"
    /\ \E answer \in Answers : ProviderAnswered(answer)
    /\ UNCHANGED waConfig

\* whatsapp_service.py:51, :58, :67, :73 -- a direct call returns.
SendNotificationReturn ==
    /\ wa.pc = "sendDone"
    /\ wa.via = "direct"
    /\ wa' = [wa EXCEPT !.pc = "done", !.status = wa.result,
                        !.outcome = "returned"]
    /\ UNCHANGED waConfig

\* whatsapp_service.py:96-100 -- the loop over the manager phones: the next
\* phone is notified; after the last, 'sent' is returned if any send was
\* one, else 'failed', and the handler goes on.
ManagerNextPhone ==
    /\ wa.pc = "sendDone"
    /\ wa.via = "manager"
    /\ LET c == [wa EXCEPT !.anySent = @ \/ wa.result = "sent"]
           status == IF c.anySent THEN "sent" ELSE "failed"
       IN  wa' = IF wa.left > 0
                 THEN StartSend([c EXCEPT !.left = @ - 1], TRUE)
                 ELSE [c EXCEPT !.status = status,
                                !.pc = AfterNotify(wa.caller, status)]
    /\ UNCHANGED waConfig

\* sla_monitor_service.py:127-146 -- the overdue handler posts the renewal
\* task; a failed POST is logged and dropped.
RenewalTaskResp ==
    /\ wa.pc = "renewalTask"
    /\ wa' = [wa EXCEPT !.writes = Append(@, "task"), !.pc = "auditNote"]
    /\ UNCHANGED waConfig

\* sla_monitor_service.py:148-157, 181-190 -- the SLA handlers add their
\* note when the task names a lead; a failed POST is dropped.
AuditNoteResp ==
    /\ wa.pc = "auditNote"
    /\ wa' = [wa EXCEPT !.writes = IF wa.entity THEN Append(@, "note") ELSE @,
                        !.pc = "done", !.outcome = "returned"]
    /\ UNCHANGED waConfig

\* document_control_service.py:87, 127-155 -- check_and_remind creates the
\* remediation tasks; when the task listing fails the call ends with status
\* 'error'.
RemediationTasksResp ==
    /\ wa.pc = "remediationTasks"
    /\ \E listed \in BOOLEAN :
          wa' = IF listed
                THEN [wa EXCEPT !.writes = Append(@, "task"),
                                !.pc = "reminderNote"]
                ELSE [wa EXCEPT !.pc = "done", !.outcome = "error"]
    /\ UNCHANGED waConfig

\* document_control_service.py:90, 198-207 -- check_and_remind records the
\* reminder note; a failed POST is logged and dropped.  The statements
\* after it are those of the reminder workflow above.
ReminderNoteResp ==
    /\ wa.pc = "reminderNote"
    /\ wa' = [wa EXCEPT !.writes = Append(@, "note"),
                        !.pc = "done", !.outcome = "returned"]
    /\ UNCHANGED waConfig

\* The next call is made.
WaNextCall ==
    /\ wa.pc = "done"
    /\ wa.calls < MaxWaCalls
    /\ wa' = [IdleWa EXCEPT !.calls = wa.calls]
    /\ UNCHANGED waConfig

\* The dispatcher as configured by its environment, no call made.
InitWa ==
    /\ waConfig \in WaConfigs
    /\ wa = IdleWa

\* The dispatcher with nothing configured and no call made.
WaAtRest ==
    /\ waConfig = NoWaConfig
    /\ wa = IdleWa

NextWa ==
    \/ SendNotificationCall
         /\ UNCHANGED <<tokVars, regVars, docVars, slaVars, bootVars, clsVars,
                        cfgVars, outerVars>>
    \/ HandlerNotifies
         /\ UNCHANGED <<tokVars, regVars, docVars, slaVars, bootVars, clsVars,
                        cfgVars, outerVars>>
    \/ PrimaryResp
         /\ UNCHANGED <<tokVars, regVars, docVars, slaVars, bootVars, clsVars,
                        cfgVars, outerVars>>
    \/ SecondaryResp
         /\ UNCHANGED <<tokVars, regVars, docVars, slaVars, bootVars, clsVars,
                        cfgVars, outerVars>>
    \/ SendNotificationReturn
         /\ UNCHANGED <<tokVars, regVars, docVars, slaVars, bootVars, clsVars,
                        cfgVars, outerVars>>
    \/ ManagerNextPhone
         /\ UNCHANGED <<tokVars, regVars, docVars, slaVars, bootVars, clsVars,
                        cfgVars, outerVars>>
    \/ RenewalTaskResp
         /\ UNCHANGED <<tokVars, regVars, docVars, slaVars, bootVars, clsVars,
                        cfgVars, outerVars>>
    \/ AuditNoteResp
         /\ UNCHANGED <<tokVars, regVars, docVars, slaVars, bootVars, clsVars,
                        cfgVars, outerVars>>
    \/ RemediationTasksResp
         /\ UNCHANGED <<tokVars, regVars, docVars, slaVars, bootVars, clsVars,
                        cfgVars, outerVars>>
    \/ ReminderNoteResp
         /\ UNCHANGED <<tokVars, regVars, docVars, slaVars, bootVars, clsVars,
                        cfgVars, outerVars>>
    \/ WaNextCall
         /\ UNCHANGED <<tokVars, regVars, docVars, slaVars, bootVars, clsVars,
                        cfgVars, outerVars>>

-----------------------------------------------------------------------------
(* Pipeline classifier: detect_pipeline with no model key configured, that *)
(* is, the keyword detection.  Texts are sequences of words, transliterated; *)
(* a keyword is found when its words occur in the text in a row.           *)

MaxWords == 3       \* words in a subject plus message

\* Words the texts are made of; "NKU" is written in capitals.
Vocabulary == {"NKU", "moshchnost", "na", "zakaz", "montazh", "remont",
               "cena"}

\* pipeline_service.py:139 -- str.lower(), word by word.
Lower(text) ==
    [i \in 1..Len(text) |-> IF text[i] = "NKU" THEN "nku" ELSE text[i]]

\* pipeline_service.py:142-153
nku_keywords ==
    {<<"nku">>, <<"izgotovlenie">>, <<"proizvodstvo">>, <<"na", "zakaz">>,
     <<"moshchnost">>, <<"vvod">>, <<"ip54">>, <<"ip65">>,
     <<"tehnicheskie", "parametry">>, <<"specifikaciya">>}

\* pipeline_service.py:156-166
services_keywords ==
    {<<"vyezd">>, <<"montazh">>, <<"ustanovka">>, <<"remont">>,
     <<"obsluzhivanie">>, <<"nastrojka">>, <<"diagnostika">>, <<"adres">>,
     <<"vizit">>}

\* pipeline_service.py:168-169 -- the number of keywords found in the text.
Score(text, keywords) ==
    Cardinality({k \in keywords : Contains(Lower(text), k)})

\* The confidence grows with the score without a cap.
UncappedConfidence(score) == 40 + score * 10

\* pipeline_service.py:173 and :177 -- min(0.7, 0.4 + score * 0.1), in
\* hundredths.
KeywordConfidence(score) ==
    IF 40 + score * 10 < 70 THEN 40 + score * 10 ELSE 70

\* pipeline_service.py:193-200 -- the pipeline id configured for a type,
\* else the default one; only the nku pipeline has an id of its own.
GetPipelineId(pipeline_type) ==
    IF pipeline_type = "nku" THEN NkuPipeline ELSE DefaultPipeline

\* pipeline_service.py:171-182 -- the category chosen from the two scores.
KeywordType(nku_score, services_score) ==
    IF nku_score > services_score /\ nku_score > 0 THEN "nku"
    ELSE IF services_score > 0 THEN "services"
    ELSE "sales"

\* pipeline_service.py:136-191 -- _keyword_detection.
KeywordDetection(text) ==
    LET nku_score == Score(text, nku_keywords)
        services_score == Score(text, services_keywords)
        pipeline_type == KeywordType(nku_score, services_score)
    IN  [pipeline_type |-> pipeline_type,
         pipeline_id |-> GetPipelineId(pipeline_type),
         confidence |-> IF pipeline_type = "nku"
                        THEN KeywordConfidence(nku_score)
                        ELSE IF pipeline_type = "services"
                        THEN KeywordConfidence(services_score)
                        ELSE 50]

NoResult == [pipeline_type |-> "none", pipeline_id |-> NoPipeline,
             confidence |-> 0]

\* pipeline_service.py:60-62 -- detect_pipeline without a model key: the
\* keyword detection answers.
DetectByKeywords ==
    /\ clsResult = NoResult
    /\ clsResult' = KeywordDetection(clsText)
    /\ UNCHANGED clsText

\* The next text comes in.
NextTextArrives ==
    /\ clsResult # NoResult
    /\ clsResult' = NoResult
    /\ clsText' \in SeqsUpTo(Vocabulary, MaxWords)

\* A text has arrived and is not classified yet.
InitClassifier ==
    /\ clsText \in SeqsUpTo(Vocabulary, MaxWords)
    /\ clsResult = NoResult

\* No text to classify.
ClassifierAtRest ==
    /\ clsText = <<>>
    /\ clsResult = NoResult

NextClassifier ==
    \/ DetectByKeywords
         /\ UNCHANGED <<tokVars, regVars, docVars, slaVars, bootVars, waVars,
                      cfgVars, outerVars>>
    \/ NextTextArrives
         /\ UNCHANGED <<tokVars, regVars, docVars, slaVars, bootVars, waVars,
                      cfgVars, outerVars>>

-----------------------------------------------------------------------------
(* The token file across restarts of the service: one caller per service *)
(* instance, the token file not always writable.                         *)

MaxRestarts == 1    \* restarts of the service

\* crm_service.py:68-69 -- the token pair configured in the environment.
EnvToken == 0

\* The caller of the service instance.
Operator == CHOOSE p \in Callers : \A q \in Callers : p <= q

\* crm_service.py:614-620 with :647-650 -- the token request is answered,
\* memory is updated, and writing the token file fails: the failure is
\* logged and the file keeps what it held.
RefreshSucceedsUnsaved(p) ==
    /\ call[p].pc = "oauth"
    /\ \E life \in ExpiresInChoices, rotate \in BOOLEAN :
          LET acc == refreshCalls
              ref == IF rotate THEN IssuedRefreshToken ELSE refresh_token
              exp == now + life
          IN  /\ access_token' = acc
              /\ refresh_token' = ref
              /\ expires_at' = exp
              /\ shortIssued' = IF life <= Margin THEN shortIssued + 1
                                ELSE shortIssued
              /\ call' = [call EXCEPT ![p] = SendAttempt(call[p], acc)]
    /\ lockHolder' = ReleasedHolder
    /\ lockWaiters' = ReleasedWaiters
    /\ saveFailed' = TRUE
    /\ UNCHANGED <<now, tokenFile, refreshCalls, refreshErrors>>

\* crm_service.py:57-74, 625-638 -- a new service instance: the token pair
\* of the environment, overridden by the token file when there is one; a
\* new lock; no call made.
Restart ==
    /\ restarts < MaxRestarts
    /\ restarts' = restarts + 1
    /\ bootCalls' = refreshCalls
    /\ bootFile' = tokenFile
    /\ saveFailed' = FALSE
    /\ access_token' = IF tokenFile = NoFile THEN EnvToken
                       ELSE tokenFile.access_token
    /\ refresh_token' = IF tokenFile = NoFile THEN EnvToken
                        ELSE tokenFile.refresh_token
    /\ expires_at' = IF tokenFile = NoFile THEN NoExpiry
                     ELSE tokenFile.expires_at
    /\ lockHolder' = NoHolder
    /\ lockWaiters' = <<>>
    /\ call' = [p \in Callers |-> IdleCall]
    /\ UNCHANGED <<now, tokenFile, refreshCalls, refreshErrors, shortIssued>>

\* The first instance: both tokens configured, with or without a token
\* file left by an earlier run.
InitTokenFile ==
    /\ InitToken
    /\ access_token = EnvToken
    /\ refresh_token = EnvToken

NextTokenFile ==
    \/ StartRequest(Operator)
         /\ UNCHANGED <<regVars, docVars, slaVars, auxVars>>
    \/ RefreshFails(Operator)
         /\ UNCHANGED <<regVars, docVars, slaVars, auxVars>>
    \/ RefreshSucceeds(Operator)
         /\ saveFailed' = FALSE
         /\ UNCHANGED <<restarts, bootCalls, bootFile>>
         /\ UNCHANGED <<regVars, docVars, slaVars, clsVars, waVars, cfgVars,
                        outerVars>>
    \/ RefreshSucceedsUnsaved(Operator)
         /\ UNCHANGED <<restarts, bootCalls, bootFile>>
         /\ UNCHANGED <<regVars, docVars, slaVars, clsVars, waVars, cfgVars,
                        outerVars>>
    \/ FirstResponse(Operator)
         /\ UNCHANGED <<regVars, docVars, slaVars, auxVars>>
    \/ SecondResponse(Operator)
         /\ UNCHANGED <<regVars, docVars, slaVars, auxVars>>
    \/ Tick
         /\ UNCHANGED <<regVars, docVars, slaVars, auxVars>>
    \/ Restart
         /\ UNCHANGED <<regVars, docVars, slaVars, clsVars, waVars, cfgVars,
                        outerVars>>

-----------------------------------------------------------------------------
(* Entry of register_interaction: the configuration check, then the      *)
(* classifier, the extractor and the first CRM request of the resolver.  *)

MaxEntryCalls == 2      \* calls of register_interaction

\* crm_service.py:58-65 -- the settings read from the environment.
Settings == {"base_url", "client_id", "client_secret", "redirect_uri",
             "pipeline_id", "lead_status_id"}

\* Only the base URL is looked at.
ValidateBaseUrlOnly(missing) ==
    IF "base_url" \in missing THEN "AMO_BASE_URL is not configured"
    ELSE "ok"

\* crm_service.py:655-661 -- _validate_config: the message of the
\* CRMConfigurationError raised, "ok" when nothing is raised.
ValidateConfig(missing) ==
    IF "base_url" \in missing
    THEN "AMO_BASE_URL is not configured"
    ELSE IF {"client_id", "client_secret", "redirect_uri"} \cap missing # {}
    THEN "amoCRM OAuth credentials are incomplete"
    ELSE IF {"pipeline_id", "lead_status_id"} \cap missing # {}
    THEN "Pipeline or status configuration is missing"
    ELSE "ok"

IdleEntry == [pc |-> "idle", outcome |-> "none", message |-> "ok",
              classifierCalls |-> 0, extractorCalls |-> 0,
              crmRequests |-> 0, calls |-> 0]

\* crm_service.py:82-93 -- the configuration check; when it passes, the
\* classifier is called.
EntryBegin ==
    /\ entry.pc = "idle"
    /\ entry.calls < MaxEntryCalls
    /\ LET verdict == ValidateConfig(missingConfig)
       IN  entry' = IF verdict # "ok"
                    THEN [entry EXCEPT !.pc = "done",
                                       !.outcome = "config_error",
                                       !.message = verdict,
                                       !.calls = @ + 1]
                    ELSE [entry EXCEPT !.pc = "classify",
                                       !.outcome = "none",
                                       !.message = "ok",
                                       !.classifierCalls = @ + 1,
                                       !.calls = @ + 1]
    /\ UNCHANGED missingConfig

\* crm_service.py:89-100 -- detect_pipeline has returned (it falls back
\* instead of raising); the extractor is called.
EntryClassified ==
    /\ entry.pc = "classify"
    /\ entry' = [entry EXCEPT !.pc = "extract", !.extractorCalls = @ + 1]
    /\ UNCHANGED missingConfig

\* crm_service.py:96-112 -- extract_deal_data has returned (it falls back
\* instead of raising); _upsert_contact sends the first CRM request.
EntryExtracted ==
    /\ entry.pc = "extract"
    /\ entry' = [entry EXCEPT !.pc = "crm", !.crmRequests = @ + 1]
    /\ UNCHANGED missingConfig

\* crm_service.py:112-137 -- the resolver runs to its end, or a CRM
\* request fails.
EntryResolved ==
    /\ entry.pc = "crm"
    /\ \E ok \in BOOLEAN :
          entry' = [entry EXCEPT !.pc = "done",
                                 !.outcome = IF ok THEN "ok"
                                             ELSE "runtime_error"]
    /\ UNCHANGED missingConfig

\* The handler is ready for the next call.
EntryNextCall ==
    /\ entry.pc = "done"
    /\ entry.calls < MaxEntryCalls
    /\ entry' = [entry EXCEPT !.pc = "idle"]
    /\ UNCHANGED missingConfig

\* The service as configured by its environment, any settings missing.
InitEntry ==
    /\ missingConfig \in SUBSET Settings
    /\ entry = IdleEntry

\* Every setting configured, no call made.
EntryAtRest ==
    /\ missingConfig = {}
    /\ entry = IdleEntry

NextEntry ==
    \/ EntryBegin
         /\ UNCHANGED <<tokVars, regVars, docVars, slaVars, bootVars, clsVars,
                        waVars, outerVars>>
    \/ EntryClassified
         /\ UNCHANGED <<tokVars, regVars, docVars, slaVars, bootVars, clsVars,
                        waVars, outerVars>>
    \/ EntryExtracted
         /\ UNCHANGED <<tokVars, regVars, docVars, slaVars, bootVars, clsVars,
                        waVars, outerVars>>
    \/ EntryResolved
         /\ UNCHANGED <<tokVars, regVars, docVars, slaVars, bootVars, clsVars,
                        waVars, outerVars>>
    \/ EntryNextCall
         /\ UNCHANGED <<tokVars, regVars, docVars, slaVars, bootVars, clsVars,
                        waVars, outerVars>>

-----------------------------------------------------------------------------
(* SLA sweep over the CRM task store: check_overdue_tasks without a lead  *)
(* id, its two handlers and what they write.  Times are in seconds; a     *)
(* task is known by its position in the store.                            *)

MaxStoreTasks == 2      \* tasks in the store before the first sweep
MaxStoreFailures == 1   \* CRM requests of the sweeps that fail in a run
MaxSweepTicks == 1      \* times the clock advances in a run

\* The sweep is run twice in a row.
Passes == <<"first", "second">>

\* How far the clock advances while a notification is sent.
TickSeconds == 1800

\* sla_monitor_service.py:128 -- timedelta(hours=2)
renewal_hours == 2

StoreLeads == {1, 2}

\* The operator responsible for the tasks of a lead before the first
\* sweep.
OperatorOf(lead) == lead + 6

\* A task as the CRM lists it, due e seconds before the first sweep.
StoreTask(e, lead, done) ==
    [text |-> "call", complete_till |-> SweepNow - e, entity_id |-> lead,
     responsible_user_id |-> OperatorOf(lead), is_completed |-> done]

\* Tasks found in the store before the first sweep: on either lead one
\* due 90 minutes before, and on the first lead one due 5 hours before,
\* one due 30 minutes before and a completed one.
StoreTasks ==
    {StoreTask(5400, l, FALSE) : l \in StoreLeads}
        \cup {StoreTask(18000, 1, FALSE), StoreTask(1800, 1, FALSE),
              StoreTask(5400, 1, TRUE)}

\* sla_monitor_service.py:136 -- the text of a renewal task.
RenewalText(task_text) == "Povtor: " \o task_text

\* The renewal task falls due when the original did.
RenewalDueWithOriginal(task, t) == task.complete_till

\* sla_monitor_service.py:128, :137 -- the due time of a renewal task
\* posted at t.
RenewalDue(task, t) == t + renewal_hours * SecondsPerHour

\* sla_monitor_service.py:133-142 -- the renewal task posted for a task.
RenewalTask(task, t) ==
    [text |-> RenewalText(task.text),
     complete_till |-> RenewalDue(task, t),
     entity_id |-> task.entity_id,
     responsible_user_id |-> task.responsible_user_id,
     is_completed |-> FALSE]

\* sla_monitor_service.py:153, :186 -- the titles of the audit notes.
AuditTitle(class) ==
    IF class = "urgent" THEN "SLA: Kriticheskaya prosrochka"
    ELSE "SLA: Prosrochennaya zadacha"

\* The urgent handler posts a renewal task as well.
FirstWriteAlwaysRenewal(class) == "renewal"

\* sla_monitor_service.py:125-128, :179-181 -- the write a handler makes
\* after send_to_manager has returned.
FirstWrite(class) == IF class = "overdue" THEN "renewal" ELSE "note"

\* How the CRM may answer a request of the sweep: TRUE when it serves it.
StoreAnswers == IF failures < MaxStoreFailures THEN BOOLEAN ELSE {TRUE}

\* How long send_to_manager may take.
SendTimes == IF ticks < MaxSweepTicks THEN {0, TickSeconds} ELSE {0}

IdleRun == [pc |-> "idle", fetched |-> <<>>, next |-> 1, now |-> 0,
            checked |-> 0, overdue |-> 0, urgent |-> 0,
            notifications_sent |-> 0, clean |-> TRUE]

NoHandling == [task |-> 0, class |-> "none", log |-> <<>>, posted_at |-> 0,
               tasksBefore |-> 0, notesBefore |-> 0, sentBefore |-> 0,
               finished |-> FALSE]

\* sla_monitor_service.py:23-38, 82-91 -- a sweep over all leads starts.
StoreSweepBegin ==
    /\ run.pc = "idle"
    /\ Len(sweepsDone) < Len(Passes)
    /\ run' = [IdleRun EXCEPT !.pc = "fetch"]
    /\ handling' = NoHandling
    /\ UNCHANGED <<crmClock, crmTasks, crmTasks0, crmNotes, notified,
                   sweepsDone, failures, ticks>>

\* sla_monitor_service.py:91-102, 43-46 -- the leads and their tasks are
\* listed (a failure reads as no tasks); the sweep takes the time.
StoreFetchResp ==
    /\ run.pc = "fetch"
    /\ \E ok \in StoreAnswers :
          /\ run' = [run EXCEPT !.pc = "scan",
                                !.fetched = IF ok THEN crmTasks ELSE <<>>,
                                !.now = crmClock, !.clean = ok]
          /\ failures' = IF ok THEN failures ELSE failures + 1
    /\ UNCHANGED <<crmClock, crmTasks, crmTasks0, crmNotes, notified,
                   handling, sweepsDone, ticks>>

\* sla_monitor_service.py:48-73, 104-123, 159-177 -- the loop takes the
\* next task; the handler of an overdue or urgent task is entered and has
\* read the lead's name (a failed read leaves the default name).
StoreClassify ==
    /\ run.pc = "scan"
    /\ run.next <= Len(run.fetched)
    /\ LET task == run.fetched[run.next]
           class == IF task.is_completed \/ task.complete_till = NoDue
                    THEN "skip"
                    ELSE Classify(task.complete_till, run.now)
           entered == [NoHandling EXCEPT !.task = run.next, !.class = class,
                                         !.tasksBefore = Len(crmTasks),
                                         !.notesBefore = Len(crmNotes),
                                         !.sentBefore = Len(notified)]
       IN  IF class = "urgent"
           THEN /\ run' = [run EXCEPT !.pc = "notify", !.urgent = @ + 1]
                /\ handling' = entered
           ELSE IF class = "overdue"
           THEN /\ run' = [run EXCEPT !.pc = "notify", !.overdue = @ + 1]
                /\ handling' = entered
           ELSE /\ run' = [run EXCEPT !.next = @ + 1]
                /\ UNCHANGED handling
    /\ UNCHANGED <<crmClock, crmTasks, crmTasks0, crmNotes, notified,
                   sweepsDone, failures, ticks>>

\* sla_monitor_service.py:125, :179 -- send_to_manager has returned, some
\* time after it was called; its status is not looked at.
StoreNotify ==
    /\ run.pc = "notify"
    /\ \E d \in SendTimes :
          /\ crmClock' = crmClock + d
          /\ ticks' = IF d = 0 THEN ticks ELSE ticks + 1
    /\ notified' = Append(notified, [task |-> handling.task,
                                     urgent |-> handling.class = "urgent"])
    /\ handling' = [handling EXCEPT !.log = Append(@, "notify")]
    /\ run' = [run EXCEPT !.pc = FirstWrite(handling.class)]
    /\ UNCHANGED <<crmTasks, crmTasks0, crmNotes, sweepsDone, failures>>

\* sla_monitor_service.py:127-146 -- the POST of the renewal task is
\* answered; a failure is logged and dropped.
StoreRenewalResp ==
    /\ run.pc = "renewal"
    /\ \E ok \in StoreAnswers :
          /\ crmTasks' =
                IF ok
                THEN Append(crmTasks,
                            RenewalTask(run.fetched[handling.task], crmClock))
                ELSE crmTasks
          /\ handling' = [handling EXCEPT
                            !.log = Append(@, IF ok THEN "task"
                                              ELSE "task failed"),
                            !.posted_at = crmClock]
          /\ run' = [run EXCEPT !.pc = "note", !.clean = @ /\ ok]
          /\ failures' = IF ok THEN failures ELSE failures + 1
    /\ UNCHANGED <<crmClock, crmTasks0, crmNotes, notified, sweepsDone,
                   ticks>>

\* sla_monitor_service.py:148-157, 181-190, 68-73 -- the POST of the audit
\* note is answered (a failure is dropped); the handler returns and the
\* notification is counted.
StoreNoteResp ==
    /\ run.pc = "note"
    /\ \E ok \in StoreAnswers :
          /\ crmNotes' =
                IF ok
                THEN Append(crmNotes,
                            [lead |-> run.fetched[handling.task].entity_id,
                             title |-> AuditTitle(handling.class)])
                ELSE crmNotes
          /\ handling' = [handling EXCEPT
                            !.log = Append(@, IF ok THEN "note"
                                              ELSE "note failed"),
                            !.finished = TRUE]
          /\ run' = [run EXCEPT !.pc = "scan", !.next = @ + 1,
                                !.notifications_sent = @ + 1,
                                !.clean = @ /\ ok]
          /\ failures' = IF ok THEN failures ELSE failures + 1
    /\ UNCHANGED <<crmClock, crmTasks, crmTasks0, notified, sweepsDone,
                   ticks>>

\* sla_monitor_service.py:75-80 -- the loop is over: the sweep returns its
\* counts.
StoreSweepReturn ==
    /\ run.pc = "scan"
    /\ run.next > Len(run.fetched)
    /\ run' = [run EXCEPT !.pc = "idle", !.checked = Len(run.fetched)]
    /\ sweepsDone' = Append(sweepsDone, [tasks |-> Len(crmTasks),
                                         clean |-> run.clean,
                                         at |-> run.now,
                                         notifications_sent |->
                                             run.notifications_sent])
    /\ UNCHANGED <<crmClock, crmTasks, crmTasks0, crmNotes, notified,
                   handling, failures, ticks>>

\* A store with tasks in it, no sweep made.
InitStore ==
    /\ crmClock = SweepNow
    /\ crmTasks \in SeqsUpTo(StoreTasks, MaxStoreTasks) \ {<<>>}
    /\ crmTasks0 = crmTasks
    /\ crmNotes = <<>>
    /\ notified = <<>>
    /\ run = IdleRun
    /\ handling = NoHandling
    /\ sweepsDone = <<>>
    /\ failures = 0
    /\ ticks = 0

\* An empty store, no sweep made.
StoreAtRest ==
    /\ crmClock = SweepNow
    /\ crmTasks = <<>>
    /\ crmTasks0 = <<>>
    /\ crmNotes = <<>>
    /\ notified = <<>>
    /\ run = IdleRun
    /\ handling = NoHandling
    /\ sweepsDone = <<>>
    /\ failures = 0
    /\ ticks = 0

NextStore ==
    \/ StoreSweepBegin /\ UNCHANGED <<innerVars, httpVars, llmVars, crmDoneVars,
                                   remVars>>
    \/ StoreFetchResp /\ UNCHANGED <<innerVars, httpVars, llmVars, crmDoneVars,
                                   remVars>>
    \/ StoreClassify /\ UNCHANGED <<innerVars, httpVars, llmVars, crmDoneVars,
                                   remVars>>
    \/ StoreNotify /\ UNCHANGED <<innerVars, httpVars, llmVars, crmDoneVars,
                                   remVars>>
    \/ StoreRenewalResp /\ UNCHANGED <<innerVars, httpVars, llmVars, crmDoneVars,
                                   remVars>>
    \/ StoreNoteResp /\ UNCHANGED <<innerVars, httpVars, llmVars, crmDoneVars,
                                   remVars>>
    \/ StoreSweepReturn /\ UNCHANGED <<innerVars, httpVars, llmVars, crmDoneVars,
                                   remVars>>

-----------------------------------------------------------------------------
(* HTTP boundary: the endpoints of main.py over the CRM operations, and   *)
(* what each answers when the operation meets a fault.                     *)

MaxHttpCalls == 2       \* requests served in a run

\* main.py:222, :255, :280, :301, :315, :349 -- the CRM endpoints.
Operations ==
    {"register", "documents", "proposal_sent", "document_check", "sla_check",
     "remind"}

\* What a call may meet: nothing, a CRMConfigurationError raised by the
\* CRM client (crm_service.py:583, :596, :655-661), or a failed CRM
\* request (a RuntimeError, a timeout).
Faults == {"none", "config", "remote"}

\* crm_service.py:79-137, 139-157 -- register_interaction and
\* ensure_document_completeness catch nothing.
\* crm_service.py:405-451 -- handle_proposal_sent drops the failures of its
\* PATCH and task requests and lets those of the final note through; a
\* missing configuration fails every request, the note included.
\* crm_service.py:456-488 -- check_document_files returns a result with an
\* 'error' entry whatever was raised.
\* sla_monitor_service.py:37-41, 82-102, 104-190 -- check_overdue_tasks
\* returns zero counts on a configuration error; of the other failures only
\* that of the task listing of a given lead gets out.
\* document_control_service.py:35-113 -- check_and_remind returns a result
\* whatever was raised.
ServiceOutcome(op, fault, with_lead, guarded) ==
    IF fault = "none" THEN "returns"
    ELSE IF op \in {"register", "documents"}
    THEN (IF fault = "config" THEN "CRMConfigurationError" ELSE "Exception")
    ELSE IF op = "proposal_sent"
    THEN (IF fault = "config" THEN "CRMConfigurationError"
          ELSE IF guarded THEN "returns" ELSE "Exception")
    ELSE IF op = "sla_check"
    THEN (IF fault = "remote" /\ with_lead /\ ~guarded THEN "Exception"
          ELSE "returns")
    ELSE "returns"

\* main.py:245, :264, :289, :308 -- the endpoints with an 'except
\* CRMConfigurationError' clause; check_sla (:319-324) and
\* remind_about_documents (:353-358) have 'except Exception' only.
CatchesConfigError(op) ==
    op \in {"register", "documents", "proposal_sent", "document_check"}

\* main.py:244-249 and the like -- the status code of the response.
ResponseStatus(op, outcome) ==
    IF outcome = "returns" THEN 200
    ELSE IF outcome = "CRMConfigurationError" /\ CatchesConfigError(op)
    THEN 503
    ELSE 500

IdleHttp == [pc |-> "idle", op |-> "none", fault |-> "none",
             with_lead |-> FALSE, guarded |-> FALSE, outcome |-> "none",
             status |-> 0, calls |-> 0]

\* main.py:222-243 and the like -- a request arrives and the endpoint calls
\* its operation; the call meets a fault or none.  Only check_sla may come
\* without a lead id; a failed request sits inside a try block of the
\* operation (guarded) or not.
EndpointCalled ==
    /\ http.pc = "idle"
    /\ http.calls < MaxHttpCalls
    /\ \E op \in Operations, fault \in Faults, with_lead \in BOOLEAN,
          guarded \in BOOLEAN :
          /\ with_lead \/ op = "sla_check"
          /\ guarded => fault = "remote"
          /\ http' = [IdleHttp EXCEPT !.pc = "service", !.op = op,
                                      !.fault = fault,
                                      !.with_lead = with_lead,
                                      !.guarded = guarded,
                                      !.calls = http.calls + 1]

\* The operation returns or raises.
ServiceEnded ==
    /\ http.pc = "service"
    /\ http' = [http EXCEPT
                  !.pc = "boundary",
                  !.outcome = ServiceOutcome(http.op, http.fault,
                                             http.with_lead, http.guarded)]

\* main.py:243-249 and the like -- the endpoint answers.
EndpointResponded ==
    /\ http.pc = "boundary"
    /\ http' = [http EXCEPT !.pc = "done",
                            !.status = ResponseStatus(http.op, http.outcome)]

\* The next request arrives.
HttpNextCall ==
    /\ http.pc = "done"
    /\ http.calls < MaxHttpCalls
    /\ http' = [IdleHttp EXCEPT !.calls = http.calls]

\* No request served.
InitHttp == http = IdleHttp

NextHttp ==
    \/ EndpointCalled /\ UNCHANGED <<innerVars, storeVars, llmVars, crmDoneVars,
                                   remVars>>
    \/ ServiceEnded /\ UNCHANGED <<innerVars, storeVars, llmVars, crmDoneVars,
                                   remVars>>
    \/ EndpointResponded /\ UNCHANGED <<innerVars, storeVars, llmVars, crmDoneVars,
                                   remVars>>
    \/ HttpNextCall /\ UNCHANGED <<innerVars, storeVars, llmVars, crmDoneVars,
                                   remVars>>

-----------------------------------------------------------------------------
(* Model capability: detect_pipeline and extract_deal_data with a model    *)
(* key configured.  A message is a sequence of words; the content of a     *)
(* model response is a sequence of tokens.                                 *)

MaxLlmWords == 2    \* words in a subject plus message

\* Words of the messages: a keyword of either pipeline, an amount, a
\* quantity.
MessageWords == {"NKU", "montazh", "100tg", "5sht"}

NoAmount == 0 - 1

\* Tokens of a response content.
Token(t, key, value) == [t |-> t, key |-> key, value |-> value]
LeftBrace == Token("{", "", "")
RightBrace == Token("}", "", "")
Fence == Token("fence", "", "")
Prose == Token("prose", "", "")
Number == Token("number", "", "7")
Field(key, value) == Token("field", key, value)

\* The members of the JSON objects a model may write: a pipeline type (one
\* of the three, or a word of its own) or none, a confidence (a number, or
\* a word) or none, an amount or none.
MemberLists ==
    {type \o conf \o amount :
        type \in {<<>>} \cup {<<Field("pipeline_type", v)>> :
                                 v \in {"sales", "nku", "services",
                                        "support"}},
        conf \in {<<>>, <<Field("confidence", "0.9")>>,
                  <<Field("confidence", "1.5")>>,
                  <<Field("confidence", "high")>>},
        amount \in {<<>>, <<Field("total_amount", "700")>>}}

Objects == {<<LeftBrace>> \o m \o <<RightBrace>> : m \in MemberLists}

\* What a model may send as content: the object alone, in a code fence,
\* after or before a sentence, cut short; a number; a sentence; nothing.
Contents ==
    Objects
        \cup {<<Fence>> \o o \o <<Fence>> : o \in Objects}
        \cup {<<Prose>> \o o : o \in Objects}
        \cup {o \o <<Prose>> : o \in Objects}
        \cup {SubSeq(o, 1, Len(o) - 1) : o \in Objects}
        \cup {<<Number>>, <<Prose>>, <<>>}

\* What the capability may answer: an error status, nothing in time, or a
\* completion with a content.
Replies ==
    {[kind |-> "status_error", content |-> <<>>],
     [kind |-> "timeout", content |-> <<>>]}
        \cup {[kind |-> "content", content |-> c] : c \in Contents}

\* json.loads: the text is one JSON value, an object or a number, or the
\* call raises JSONDecodeError.
JsonLoads(content) ==
    IF /\ Len(content) >= 2
       /\ content[1] = LeftBrace
       /\ content[Len(content)] = RightBrace
       /\ \A i \in 2..(Len(content) - 1) : content[i].t = "field"
    THEN [raises |-> "none", type |-> "dict",
          members |-> SubSeq(content, 2, Len(content) - 1)]
    ELSE IF content = <<Number>>
    THEN [raises |-> "none", type |-> "int", members |-> <<>>]
    ELSE [raises |-> "JSONDecodeError", type |-> "none", members |-> <<>>]

\* dict.get(key, default)
Get(members, key, default) ==
    LET hits == {i \in 1..Len(members) : members[i].key = key}
    IN  IF hits = {} THEN default
        ELSE members[CHOOSE i \in hits : \A j \in hits : j <= i].value

\* float(): of "0.9", of "1.5", of the default 0.5, of a word; in
\* hundredths.
FloatRaises(value) == value = "high"
Float(value) ==
    IF value = "0.9" THEN 90 ELSE IF value = "1.5" THEN 150 ELSE 50

\* The value a function returns, or the exception it raises.
Returns(value) == [raises |-> "none", value |-> value]
Raises(exception) == [raises |-> exception, value |-> "none"]

\* pipeline_service.py:107-134 -- _llm_detection once the capability has
\* answered.
LlmDetection(text, reply) ==
    IF reply.kind = "timeout" THEN Raises("TimeoutException")
    ELSE IF reply.kind = "status_error" THEN Raises("RuntimeError")
    ELSE LET result == JsonLoads(reply.content)
             pipeline_type == Get(result.members, "pipeline_type", "sales")
             confidence == Get(result.members, "confidence", "0.5")
         IN  IF result.raises = "JSONDecodeError"
             THEN Returns(KeywordDetection(text))
             ELSE IF result.type # "dict" THEN Raises("AttributeError")
             ELSE IF FloatRaises(confidence)
             THEN Returns(KeywordDetection(text))
             ELSE Returns([pipeline_type |-> pipeline_type,
                           pipeline_id |-> GetPipelineId(pipeline_type),
                           confidence |-> Float(confidence)])

\* data_extraction_service.py:128-134 -- the amount a word of the message
\* states, if it states one.
AmountOf(word) == IF word = "100tg" THEN 100 ELSE NoAmount

\* data_extraction_service.py:137-144 -- the quantity a word states.
QuantityOf(word) == IF word = "5sht" THEN 5 ELSE NoAmount

\* data_extraction_service.py:119-159 -- _regex_extraction: the last
\* amount of the message, one product for its first quantity.
RegexExtraction(text) ==
    LET amounts == {i \in 1..Len(text) : AmountOf(text[i]) # NoAmount}
        quantities == {i \in 1..Len(text) : QuantityOf(text[i]) # NoAmount}
    IN  [products |->
            IF quantities = {} THEN <<>>
            ELSE <<QuantityOf(text[CHOOSE i \in quantities :
                                      \A j \in quantities : i <= j])>>,
         total_amount |->
            IF amounts = {} THEN NoAmount
            ELSE AmountOf(text[CHOOSE i \in amounts :
                                  \A j \in amounts : j <= i]),
         confidence |-> 30]

\* data_extraction_service.py:94-117 -- _llm_extraction once the
\* capability has answered.
LlmExtraction(text, reply) ==
    IF reply.kind = "timeout" THEN Raises("TimeoutException")
    ELSE IF reply.kind = "status_error" THEN Raises("RuntimeError")
    ELSE LET result == JsonLoads(reply.content)
             total_amount == Get(result.members, "total_amount", "null")
             confidence == Get(result.members, "confidence", "0.5")
         IN  IF result.raises = "JSONDecodeError"
             THEN Returns(RegexExtraction(text))
             ELSE IF result.type # "dict" THEN Raises("AttributeError")
             ELSE IF FloatRaises(confidence)
             THEN Returns(RegexExtraction(text))
             ELSE Returns([products |-> <<>>,
                           total_amount |-> IF total_amount = "700"
                                            THEN 700 ELSE NoAmount,
                           confidence |-> Float(confidence)])

\* Only the error the function raises itself is caught.
CaughtIfRuntimeError(exception) == exception = "RuntimeError"

\* pipeline_service.py:66, data_extraction_service.py:46 -- 'except
\* Exception' catches whatever the capability call and the parsing raise.
Caught(exception) ==
    exception \in {"RuntimeError", "TimeoutException", "AttributeError",
                   "JSONDecodeError", "ValueError", "TypeError"}

\* pipeline_service.py:62, :68, data_extraction_service.py:42, :48 -- the
\* deterministic path of an operation.
Fallback(op, text) ==
    IF op = "detect_pipeline" THEN KeywordDetection(text)
    ELSE RegexExtraction(text)

\* pipeline_service.py:64-68, data_extraction_service.py:44-48 -- the
\* outcome of an operation whose capability call has ended.
Guarded(op, text, reply) ==
    LET inner == IF op = "detect_pipeline" THEN LlmDetection(text, reply)
                 ELSE LlmExtraction(text, reply)
    IN  IF inner.raises # "none" /\ Caught(inner.raises)
        THEN Returns(Fallback(op, text))
        ELSE inner

IdleLlm == [pc |-> "idle", op |-> "none", key |-> FALSE, text |-> <<>>,
            reply |-> [kind |-> "none", content |-> <<>>],
            raises |-> "none", value |-> "none"]

\* pipeline_service.py:44-62, data_extraction_service.py:23-42 -- an
\* operation is called: without a model key the deterministic path
\* answers, else the capability is called.
ModelOperationCalled ==
    /\ llm.pc = "idle"
    /\ \E op \in {"detect_pipeline", "extract_deal_data"}, key \in BOOLEAN,
          text \in SeqsUpTo(MessageWords, MaxLlmWords) :
          LET c == [IdleLlm EXCEPT !.op = op, !.key = key, !.text = text]
          IN  llm' = IF key THEN [c EXCEPT !.pc = "await"]
                     ELSE [c EXCEPT !.pc = "done",
                                    !.value = Fallback(op, text)]

\* pipeline_service.py:64-68, 107-134, data_extraction_service.py:44-48,
\* 94-117 -- the capability has answered, or not in time.
ModelAnswered ==
    /\ llm.pc = "await"
    /\ \E reply \in Replies :
          LET outcome == Guarded(llm.op, llm.text, reply)
          IN  llm' = [llm EXCEPT !.pc = "done", !.reply = reply,
                                 !.raises = outcome.raises,
                                 !.value = outcome.value]

\* The next operation is called.
ModelNextCall ==
    /\ llm.pc = "done"
    /\ llm' = IdleLlm

\* No operation called.
InitLlm == llm = IdleLlm

NextLlm ==
    \/ ModelOperationCalled /\ UNCHANGED <<innerVars, storeVars, httpVars,
                                            crmDoneVars, remVars>>
    \/ ModelAnswered /\ UNCHANGED <<innerVars, storeVars, httpVars,
                                            crmDoneVars, remVars>>
    \/ ModelNextCall /\ UNCHANGED <<innerVars, storeVars, httpVars,
                                            crmDoneVars, remVars>>

-----------------------------------------------------------------------------
(* Keyword fallback on longer texts, which come in word by word *)

MaxKeywordWords == 4    \* words in a subject plus message

\* Words of these texts: four keywords of the nku list, one of the
\* services list, one of neither.
KeywordWords == {"NKU", "moshchnost", "vvod", "ip54", "montazh", "cena"}

\* One more word of the text is read.
WordArrives ==
    /\ clsResult = NoResult
    /\ Len(clsText) < MaxKeywordWords
    /\ \E w \in KeywordWords : clsText' = Append(clsText, w)
    /\ UNCHANGED clsResult

\* The next text begins.
TextCleared ==
    /\ clsResult # NoResult
    /\ clsResult' = NoResult
    /\ clsText' = <<>>

NextKeywords ==
    \/ WordArrives
       /\ UNCHANGED <<tokVars, regVars, docVars, slaVars, bootVars, waVars,
                      cfgVars, outerVars>>
    \/ DetectByKeywords
       /\ UNCHANGED <<tokVars, regVars, docVars, slaVars, bootVars, waVars,
                      cfgVars, outerVars>>
    \/ TextCleared
       /\ UNCHANGED <<tokVars, regVars, docVars, slaVars, bootVars, waVars,
                      cfgVars, outerVars>>

-----------------------------------------------------------------------------
(* Document tasks and their completion: ensure_document_completeness on a  *)
(* lead whose tasks an operator completes between the calls.               *)

\* The CRM marks a task completed; the task stays on the lead and
\* GET /api/v4/tasks, asked without a completion filter, still lists it
\* (sla_monitor_service.py:49 reads is_completed from that listing).
TaskCompleted ==
    /\ DocsIdle
    /\ \E t \in tasks \ doneTasks : doneTasks' = doneTasks \cup {t}

\* No task is completed.
InitDone == doneTasks = {}

NextEnsure ==
    \/ EnsureBegin /\ UNCHANGED <<tokVars, regButTasks, slaVars, auxVars>>
    \/ EnsListResp /\ UNCHANGED <<tokVars, regButTasks, slaVars, auxVars>>
    \/ EnsPostResp /\ UNCHANGED <<tokVars, regButTasks, slaVars, auxVars>>
    \/ TaskCompleted
       /\ UNCHANGED <<innerVars, storeVars, httpVars, llmVars, remVars>>

-----------------------------------------------------------------------------
(* Concurrent check_and_remind calls on one lead with documents missing.   *)
(* Each action is the code of one call between two awaits.  Times are in   *)
(* hours.                                                                  *)

MaxRemindCalls == 2     \* calls made in a run
MaxRemindHours == 36    \* the clock stops here

\* The request handlers that may be running check_and_remind at the same
\* time (main.py:349-358).
RemCallers == {"r1", "r2"}

IdleRem == [pc |-> "idle", status |-> "none"]

\* check_and_remind returns a status.
RemReturn(p, status) ==
    rem' = [rem EXCEPT ![p] = [pc |-> "idle", status |-> status]]

\* document_control_service.py:157-174 -- created_at of the last reminder
\* note in the lead's list of notes, NoTime when there is none.
LastReminderAt ==
    IF remNotes = <<>> THEN NoTime ELSE remNotes[Len(remNotes)]

\* document_control_service.py:60-63 -- the cool-down test.
InCooldown(last_reminder, at) ==
    /\ last_reminder # NoTime
    /\ at - last_reminder < reminder_interval_hours

\* document_control_service.py:32-37 -- check_and_remind is called: the
\* file check asks for the lead's files.
RemindCalled(p) ==
    /\ rem[p].pc = "idle"
    /\ remCalls < MaxRemindCalls
    /\ remCalls' = remCalls + 1
    /\ rem' = [rem EXCEPT ![p] = [pc |-> "files", status |-> "none"]]
    /\ UNCHANGED <<remNotes, remSent, remNow, remClean>>

\* document_control_service.py:37-57 -- the file check answers: a failure
\* gives 'unknown', a full set 'complete'; else the notes are asked for.
RemFilesAnswered(p) ==
    /\ rem[p].pc = "files"
    /\ \E answer \in {"failed", "complete", "missing"} :
          /\ IF answer = "failed" THEN RemReturn(p, "unknown")
             ELSE IF answer = "complete" THEN RemReturn(p, "complete")
             ELSE rem' = [rem EXCEPT ![p].pc = "lastReminder"]
          /\ remClean' = (remClean /\ answer # "failed")
    /\ UNCHANGED <<remNotes, remSent, remNow, remCalls>>

\* document_control_service.py:57-70, 157-174 -- the notes request answers
\* (a failure reads as no reminder): return inside the cool-down, else ask
\* for the lead's name.
RemLastReminderAnswered(p) ==
    /\ rem[p].pc = "lastReminder"
    /\ \E ok \in BOOLEAN :
          LET last_reminder == IF ok THEN LastReminderAt ELSE NoTime
          IN  /\ IF InCooldown(last_reminder, remNow)
                 THEN RemReturn(p, "reminder_sent_recently")
                 ELSE rem' = [rem EXCEPT ![p].pc = "leadName"]
              /\ remClean' = (remClean /\ ok)
    /\ UNCHANGED <<remNotes, remSent, remNow, remCalls>>

\* document_control_service.py:70-87, 130 -- the lead request answers (a
\* failure gives the default name): the standard reminder is sent, then
\* the lead's tasks are asked for.
RemLeadNameAnswered(p) ==
    /\ rem[p].pc = "leadName"
    /\ \E ok \in BOOLEAN : remClean' = (remClean /\ ok)
    /\ remSent' = Append(remSent, [at |-> remNow, by |-> p])
    /\ rem' = [rem EXCEPT ![p].pc = "tasks"]
    /\ UNCHANGED <<remNotes, remNow, remCalls>>

\* document_control_service.py:130-155, 198-205 -- the task listing
\* answers: a failure ends the call with 'error'; else the tasks are
\* posted (a failure of the POST is dropped) and the reminder note is
\* posted.
RemTasksAnswered(p) ==
    /\ rem[p].pc = "tasks"
    /\ \E ok \in BOOLEAN :
          /\ IF ok THEN rem' = [rem EXCEPT ![p].pc = "note"]
             ELSE RemReturn(p, "error")
          /\ remClean' = (remClean /\ ok)
    /\ UNCHANGED <<remNotes, remSent, remNow, remCalls>>

\* document_control_service.py:198-207, 93-109 -- the note POST answers (a
\* failure is logged and dropped); the urgency check and the status note
\* follow and the call returns.
RemNoteAnswered(p) ==
    /\ rem[p].pc = "note"
    /\ \E ok \in BOOLEAN :
          /\ remNotes' = IF ok THEN Append(remNotes, remNow) ELSE remNotes
          /\ remClean' = (remClean /\ ok)
    /\ RemReturn(p, "reminder_sent")
    /\ UNCHANGED <<remSent, remNow, remCalls>>

\* Time passes.
RemTick ==
    /\ remNow + HoursPerStep <= MaxRemindHours
    /\ remNow' = remNow + HoursPerStep
    /\ UNCHANGED <<rem, remNotes, remSent, remCalls, remClean>>

\* document_control_service.py:28-30 -- no call made, no reminder note on
\* the lead.
InitRemind ==
    /\ rem = [p \in RemCallers |-> IdleRem]
    /\ remNotes = <<>>
    /\ remSent = <<>>
    /\ remNow = HoursPerStep
    /\ remCalls = 0
    /\ remClean = TRUE

NextRemind ==
    \/ \E p \in RemCallers :
          RemindCalled(p)
             /\ UNCHANGED <<innerVars, storeVars, httpVars, llmVars,
                            crmDoneVars>>
    \/ \E p \in RemCallers :
          RemFilesAnswered(p)
             /\ UNCHANGED <<innerVars, storeVars, httpVars, llmVars,
                            crmDoneVars>>
    \/ \E p \in RemCallers :
          RemLastReminderAnswered(p)
             /\ UNCHANGED <<innerVars, storeVars, httpVars, llmVars,
                            crmDoneVars>>
    \/ \E p \in RemCallers :
          RemLeadNameAnswered(p)
             /\ UNCHANGED <<innerVars, storeVars, httpVars, llmVars,
                            crmDoneVars>>
    \/ \E p \in RemCallers :
          RemTasksAnswered(p)
             /\ UNCHANGED <<innerVars, storeVars, httpVars, llmVars,
                            crmDoneVars>>
    \/ \E p \in RemCallers :
          RemNoteAnswered(p)
             /\ UNCHANGED <<innerVars, storeVars, httpVars, llmVars,
                            crmDoneVars>>
    \/ RemTick
       /\ UNCHANGED <<innerVars, storeVars, httpVars, llmVars, crmDoneVars>>

-----------------------------------------------------------------------------
(* Specifications: one per component, the other components at rest *)

\* The token fields of a service whose token is valid throughout.
TokenAtRest ==
    /\ now = 0
    /\ access_token = 0
    /\ refresh_token = 0
    /\ expires_at = DefaultExpiresIn + MaxTime
    /\ tokenFile = NoFile
    /\ lockHolder = NoHolder
    /\ lockWaiters = <<>>
    /\ call = [p \in Callers |-> IdleCall]
    /\ refreshCalls = 0
    /\ refreshErrors = 0
    /\ shortIssued = 0

\* The resolver with no call made.
RegisterAtRest == InitRegister /\ ~crmListsClosed

\* The resolver with no call running and, in the CRM, the lead under
\* document control, without tasks.
RegisterWithLead ==
    /\ pipeline_id = DefaultPipeline
    /\ contacts = <<"k1">>
    /\ leads = <<[contact |-> 1, pipeline |-> DefaultPipeline,
                  open |-> TRUE]>>
    /\ crmListsClosed = FALSE
    /\ tasks = {}
    /\ noteCount = 0
    /\ reg = [p \in RegCallers |-> IdleReg]
    /\ regStarted = 0
    /\ lastSolo = NoPrev
    /\ prevSolo = NoPrev

\* The service has not been restarted.
BootAtRest ==
    /\ restarts = 0
    /\ bootCalls = 0
    /\ bootFile = NoFile
    /\ saveFailed = FALSE

\* The components outside the CRM client, at rest.
\* The components around the core, at rest.
OuterAtRest ==
    StoreAtRest /\ InitHttp /\ InitLlm /\ InitDone /\ InitRemind

AuxAtRest ==
    BootAtRest /\ ClassifierAtRest /\ WaAtRest /\ EntryAtRest /\ OuterAtRest

\* Initial states: the component under study as constructed, the others
\* at rest.
InitSpecToken ==
    InitToken /\ RegisterAtRest /\ InitDocs /\ InitSla /\ AuxAtRest
InitSpecRegister ==
    InitRegister /\ TokenAtRest /\ InitDocs /\ InitSla /\ AuxAtRest
InitSpecDocs ==
    InitDocs /\ RegisterWithLead /\ TokenAtRest /\ InitSla /\ AuxAtRest
InitSpecSla ==
    InitSla /\ RegisterAtRest /\ TokenAtRest /\ InitDocs /\ AuxAtRest
InitSpecTokenFile ==
    /\ InitTokenFile
    /\ RegisterAtRest /\ InitDocs /\ InitSla /\ AuxAtRest
InitSpecClassifier ==
    /\ InitClassifier
    /\ RegisterAtRest /\ TokenAtRest /\ InitDocs /\ InitSla
    /\ BootAtRest /\ WaAtRest /\ EntryAtRest /\ OuterAtRest
InitSpecWa ==
    /\ InitWa
    /\ RegisterAtRest /\ TokenAtRest /\ InitDocs /\ InitSla
    /\ BootAtRest /\ ClassifierAtRest /\ EntryAtRest /\ OuterAtRest
\* The core and its configuration, at rest.
InnerAtRest ==
    /\ RegisterAtRest /\ TokenAtRest /\ InitDocs /\ InitSla
    /\ BootAtRest /\ ClassifierAtRest /\ WaAtRest /\ EntryAtRest
InitSpecKeywords == InnerAtRest /\ OuterAtRest
InitSpecStore ==
    InitStore /\ InnerAtRest /\ InitHttp /\ InitLlm /\ InitDone /\ InitRemind
InitSpecHttp ==
    /\ InitHttp
    /\ InnerAtRest /\ StoreAtRest /\ InitLlm /\ InitDone /\ InitRemind
InitSpecLlm ==
    /\ InitLlm
    /\ InnerAtRest /\ StoreAtRest /\ InitHttp /\ InitDone /\ InitRemind
InitSpecRemind == InnerAtRest /\ OuterAtRest
InitSpecEntry ==
    /\ InitEntry
    /\ RegisterAtRest /\ TokenAtRest /\ InitDocs /\ InitSla
    /\ BootAtRest /\ ClassifierAtRest /\ WaAtRest /\ OuterAtRest

SpecToken == InitSpecToken /\ [][NextToken]_vars

\* The token check and the refresh forced by a 401, up to the retry being
\* sent.
NextTokenCheck ==
    \/ \E p \in Callers :
          StartRequest(p) /\ UNCHANGED <<regVars, docVars, slaVars, auxVars>>
    \/ \E p \in Callers :
          LockGranted(p) /\ UNCHANGED <<regVars, docVars, slaVars, auxVars>>
    \/ \E p \in Callers :
          RefreshFails(p) /\ UNCHANGED <<regVars, docVars, slaVars, auxVars>>
    \/ \E p \in Callers :
          RefreshSucceeds(p)
             /\ UNCHANGED <<regVars, docVars, slaVars, auxVars>>
    \/ \E p \in Callers :
          FirstResponse(p)
             /\ UNCHANGED <<regVars, docVars, slaVars, auxVars>>

\* Every network call is answered (by a response or an error) and the
\* event loop resumes a caller that was handed the lock.
TokenFairness ==
    \A p \in Callers :
        /\ WF_vars(LockGranted(p)
                      /\ UNCHANGED <<regVars, docVars, slaVars, auxVars>>)
        /\ WF_vars((RefreshFails(p) \/ RefreshSucceeds(p))
                      /\ UNCHANGED <<regVars, docVars, slaVars, auxVars>>)
        /\ WF_vars(FirstResponse(p)
                      /\ UNCHANGED <<regVars, docVars, slaVars, auxVars>>)

SpecTokenFair == InitSpecToken /\ [][NextTokenCheck]_vars /\ TokenFairness

\* register_interaction calls served one after the other.
SpecRegisterSeq == InitSpecRegister /\ [][NextRegisterSeq]_vars

\* register_interaction calls served one after the other by handlers
\* taking turns.
SpecRegisterRetry == InitSpecRegister /\ [][NextRegisterRetry]_vars

\* register_interaction calls served concurrently.
SpecRegister == InitSpecRegister /\ [][NextRegister]_vars

\* Document calls on one lead, served one after the other.
SpecDocs == InitSpecDocs /\ [][NextDocs]_vars

\* SLA sweeps.
SpecSla == InitSpecSla /\ [][NextSla]_vars

\* One caller per service instance, restarts, a token file that may not
\* be writable.
SpecTokenFile == InitSpecTokenFile /\ [][NextTokenFile]_vars

\* Calls of register_interaction under any configuration, up to the
\* first CRM request.
SpecEntry == InitSpecEntry /\ [][NextEntry]_vars

\* Notifications under any configuration of providers and phones.
SpecWa == InitSpecWa /\ [][NextWa]_vars

\* Sweeps over a CRM that holds tasks, made one after the other.
SpecStore == InitSpecStore /\ [][NextStore]_vars

\* Requests to the CRM endpoints, served one after the other.
SpecHttp == InitSpecHttp /\ [][NextHttp]_vars

\* Concurrent check_and_remind calls on one lead.
SpecRemind == InitSpecRemind /\ [][NextRemind]_vars

\* Texts of up to MaxKeywordWords words classified by keywords.
SpecKeywords == InitSpecKeywords /\ [][NextKeywords]_vars

\* Calls of ensure_document_completeness on a lead, with tasks completed
\* between them.
SpecEnsure == InitSpecDocs /\ [][NextEnsure]_vars

\* Calls of detect_pipeline and extract_deal_data, one after the other.
SpecLlm == InitSpecLlm /\ [][NextLlm]_vars

\* Texts classified one after the other.
SpecClassifier == InitSpecClassifier /\ [][NextClassifier]_vars

-----------------------------------------------------------------------------
(* Claims on the token lifecycle *)

\* Callers whose token check (crm_service.py:585) saw the token as expired.
Observers == {p \in Callers : call[p].observed}

\* C1: when two or more concurrent callers all observe the access token as
\* expired and the refresh is answered successfully with a lifetime beyond
\* the safety margin, exactly one request is sent to the OAuth endpoint, at
\* most one caller at a time is inside the refresh critical section, and
\* every one of those callers sends its request with the post-refresh token.
C1_SingleFlightRefresh ==
    /\ Cardinality({p \in Callers : call[p].pc = "oauth"}) <= 1
    /\ ( /\ Cardinality(Observers) >= 2
         /\ \A p \in Observers : call[p].attempts >= 1
         /\ refreshErrors = 0
         /\ shortIssued = 0 )
       => /\ refreshCalls = 1
          /\ \A p \in Observers :
                /\ call[p].used1 = access_token
                /\ call[p].used1 # call[p].seenToken

\* Two callers observed the expiry, one of them queued on the lock, and both
\* have sent their request after a single successful refresh.
C1_Witness ==
    /\ Cardinality(Observers) >= 2
    /\ \A p \in Observers : call[p].attempts >= 1
    /\ refreshErrors = 0
    /\ shortIssued = 0
    /\ refreshCalls = 1
    /\ \A p \in Observers : call[p].used1 = 1

\* C2: a call answered 401 and then 200 returns successfully, and exactly
\* one request to the OAuth endpoint was made between its two attempts,
\* whatever the stored expiry is.
C2_ForcedRefreshOn401 ==
    \A p \in Callers :
        (call[p].pc = "done" /\ call[p].resp1 = 401 /\ call[p].resp2 = 200)
        => (call[p].outcome = "ok" /\ call[p].forcedPosts = 1)

\* C3: a call answered 401 and 401 again fails with an error after exactly
\* two HTTP attempts; the 401 branch ran once and no further refresh or
\* attempt follows the second 401.
C3_SecondUnauthorizedIsFatal ==
    \A p \in Callers :
        (call[p].resp1 = 401 /\ call[p].resp2 = 401)
        => /\ call[p].pc = "done"
           /\ call[p].outcome = "runtime_error"
           /\ call[p].attempts = 2
           /\ call[p].forced = 1
           /\ call[p].forcedPosts <= 1

\* A call has received 401 on both attempts and has ended.
C3_Witness ==
    \E p \in Callers :
        /\ call[p].resp1 = 401
        /\ call[p].resp2 = 401
        /\ call[p].attempts = 2
        /\ call[p].outcome = "runtime_error"

-----------------------------------------------------------------------------
(* Claims on the contact/lead resolver *)

\* Both of the last two calls ran alone and returned, the second right
\* after the first, with the same non-empty identity key.
SameKeyTwice ==
    /\ prevSolo # NoPrev
    /\ lastSolo # NoPrev
    /\ lastSolo.key # NoKey
    /\ lastSolo.key = prevSolo.key

\* What C4 promises of the second of two such calls.
SecondCallReuses ==
    /\ lastSolo.contact = prevSolo.contact
    /\ ~lastSolo.newContact
    /\ leads[prevSolo.lead].open =>
          (lastSolo.lead = prevSolo.lead /\ ~lastSolo.newLead)

\* C4 (as stated): two register_interaction calls in sequence with the same
\* identity key return the same contact id and, while the first call's lead
\* is open, the same lead id; the second creates no contact and no lead.
C4_SameKeySameLead == SameKeyTwice => SecondCallReuses

\* C4 (amended): the same holds when both calls resolve to the same
\* pipeline; the lead lookup is by contact and pipeline, so a second call
\* classified into another pipeline gets a lead of its own.
C4_IdempotentRegister ==
    (SameKeyTwice /\ lastSolo.detected = prevSolo.detected)
    => SecondCallReuses

\* Two calls in a row with the same key and pipeline have returned, the
\* first having created the contact and the lead, which is still open.
C4_Witness ==
    /\ SameKeyTwice
    /\ lastSolo.detected = prevSolo.detected
    /\ prevSolo.newContact
    /\ prevSolo.newLead
    /\ leads[prevSolo.lead].open
    /\ lastSolo.lead = prevSolo.lead

AllRegIdle == \A p \in RegCallers : ~InFlight(reg[p])

\* C5: with calls made one at a time, whenever no call is running the
\* stored pipeline id is the configured default, whether the last call
\* returned or raised.
C5_PipelineRestored == AllRegIdle => pipeline_id = DefaultPipeline

\* A call that ran alone with the non-default pipeline detected has
\* returned, and another that had overridden the pipeline id has raised.
C5_Witness ==
    /\ AllRegIdle
    /\ lastSolo # NoPrev
    /\ lastSolo.detected = NkuPipeline
    /\ \E p \in RegCallers :
          reg[p].outcome = "runtime_error" /\ reg[p].detected = NkuPipeline
    /\ pipeline_id = DefaultPipeline

\* C6: for any interleaving of two or more concurrent calls, once all of
\* them have ended the stored pipeline id is the configured default: no
\* call's override outlives the calls.
C6_NoOverrideLeak ==
    (regStarted >= 2 /\ AllRegIdle) => pipeline_id = DefaultPipeline

-----------------------------------------------------------------------------
(* Claims on the document checklist engine and the reminder workflow *)

\* The last two ensure_document_completeness calls returned one after the
\* other with the same checklist and no other task change in between.
EnsuredTwice ==
    /\ prevEnsure # NoEnsure
    /\ lastEnsure # NoEnsure
    /\ lastEnsure.docs = prevEnsure.docs

\* C7 (as stated): of two ensure_document_completeness calls in sequence
\* for the same lead and checklist, the first creates one task per false
\* checklist entry and the second creates none.
C7_FirstCreatesAll ==
    EnsuredTwice =>
        /\ prevEnsure.created = {DocTaskText(d) : d \in prevEnsure.docs}
        /\ lastEnsure.created = {}

\* C7 (amended): the first call creates one task per false checklist entry
\* that has no task of the same text on the lead yet, and the second call
\* creates none.
C7_EnsureTwiceCreatesOnce ==
    EnsuredTwice =>
        /\ prevEnsure.created =
              {DocTaskText(d) : d \in prevEnsure.docs} \ prevEnsure.before
        /\ lastEnsure.created = {}

\* Two calls in a row with two false entries have returned: the first
\* created both tasks, the second found them.
C7_Witness ==
    /\ EnsuredTwice
    /\ Cardinality(prevEnsure.docs) = 2
    /\ Cardinality(prevEnsure.created) = 2
    /\ lastEnsure.before = prevEnsure.created

\* C9: a check_and_remind call that finds documents missing sends no
\* notification and reports 'reminder_sent_recently' with the hours left
\* when a reminder was sent less than 24 hours before it, and sends the
\* reminder when the last one was sent 24 hours before or earlier, or when
\* none was sent before.
C9_ReminderCooldown ==
    lastCheck.missing # {} =>
        LET T == lastCheck.sentBefore
        IN  /\ (T # NoTime /\ lastCheck.at < T + 24) =>
                  /\ lastCheck.std = 0
                  /\ lastCheck.urg = 0
                  /\ lastCheck.status = "reminder_sent_recently"
                  /\ lastCheck.hours_until_next = T + 24 - lastCheck.at
            /\ (T # NoTime /\ lastCheck.at >= T + 24) => lastCheck.std = 1
            /\ (T = NoTime) => lastCheck.std = 1

\* The reminder notes this workflow has recorded on the lead.
RecordedReminders == {i \in 1..Len(notes) : notes[i].text = ReminderNoteText}

\* C10: when check_and_remind sends a standard reminder and the first
\* reminder note this workflow recorded on the lead is more than 3 days
\* old, the same call sends an urgent notification too.
C10_UrgentAfterThreeDays ==
    ( /\ lastCheck.status = "reminder_sent"
      /\ lastCheck.std = 1
      /\ RecordedReminders # {}
      /\ lastCheck.at
            - notes[CHOOSE i \in RecordedReminders :
                       \A j \in RecordedReminders : i <= j].created_at
         > 3 * 24 )
    => lastCheck.urg = 1

-----------------------------------------------------------------------------
(* Claims on the SLA sweep *)

\* The fetched tasks that are incomplete and have a due timestamp, and how
\* long before the sweep each fell due.
Dated ==
    {i \in 1..Len(sweep.fetched) :
        /\ ~sweep.fetched[i].is_completed
        /\ sweep.fetched[i].complete_till # NoDue}

Elapsed(i) == sweep.now - sweep.fetched[i].complete_till

\* C8: a sweep counts as overdue exactly the incomplete dated tasks with
\* 1h <= elapsed < 4h and as urgent exactly those with elapsed >= 4h; a
\* task with elapsed < 1h, not yet due included, is in neither count.
C8_SlaClassification ==
    sweep.pc = "done" =>
        /\ sweep.overdue =
              Cardinality({i \in Dated : 3600 <= Elapsed(i)
                                         /\ Elapsed(i) < 14400})
        /\ sweep.urgent = Cardinality({i \in Dated : Elapsed(i) >= 14400})

\* A sweep over a task due 90 minutes ago and one due 5 hours ago has
\* returned overdue = 1 and urgent = 1.
C8_Witness ==
    /\ sweep.pc = "done"
    /\ \E i, j \in Dated : Elapsed(i) = 5400 /\ Elapsed(j) = 18000
    /\ sweep.overdue = 1
    /\ sweep.urgent = 1

-----------------------------------------------------------------------------
(* Claims on the pipeline classifier *)

\* C11: the keyword fallback picks the category with the higher score, a
\* tie of equal positive nku and services scores resolves to nku, and sales
\* is chosen only when both scores are zero.
C11_KeywordFallbackTieToNku ==
    clsResult # NoResult =>
        LET nku_score == Score(clsText, nku_keywords)
            services_score == Score(clsText, services_keywords)
        IN  /\ nku_score > services_score
                => clsResult.pipeline_type = "nku"
            /\ services_score > nku_score
                => clsResult.pipeline_type = "services"
            /\ (nku_score = services_score /\ nku_score > 0)
                => clsResult.pipeline_type = "nku"
            /\ clsResult.pipeline_type = "sales"
                <=> (nku_score = 0 /\ services_score = 0)

-----------------------------------------------------------------------------
(* Claims on the token check, the failed refresh and the token file *)

\* C12: the token check raises the configuration error exactly when a
\* refresh is needed and no refresh token is configured; with a refresh
\* token configured, a missing or expired access token leads to a refresh,
\* never to the configuration error.
C12_ConfigErrorOnlyWithoutRefreshToken ==
    \A p \in Callers :
        call[p].outcome = "config_error" => refresh_token = NoToken

\* C13: when the OAuth endpoint answers a refresh with an error, the call
\* in flight fails with a runtime error, the tokens and the expiry in memory
\* and the token file stay as they were and the lock is handed on; a caller
\* that starts later with the token still expired and the lock free makes
\* its own token request.
C13_FailedRefreshLeavesNoTrace ==
    [][/\ \A p \in Callers :
             (call[p].pc = "oauth" /\ refreshErrors' = refreshErrors + 1
                /\ call'[p].pc # "oauth")
             => /\ call'[p].outcome = "runtime_error"
                /\ access_token' = access_token
                /\ refresh_token' = refresh_token
                /\ expires_at' = expires_at
                /\ tokenFile' = tokenFile
                /\ lockHolder' # p
                /\ lockWaiters # <<>> => lockHolder' = Head(lockWaiters)
        /\ \A q \in Callers :
             (/\ refreshErrors > 0
              /\ call[q].pc = "idle" /\ call'[q].pc # "idle"
              /\ access_token # NoToken /\ refresh_token # NoToken
              /\ ~TokenValid(expires_at, now)
              /\ LockFree)
             => /\ call'[q].pc = "oauth"
                /\ refreshCalls' = refreshCalls + 1
      ]_vars

\* C13 witness: a refresh was refused, the next caller made its own token
\* request, got the new token and completed its call with it.
C13_Witness ==
    \E p, q \in Callers :
        /\ call[p].outcome = "runtime_error"
        /\ call[p].attempts = 0
        /\ refreshErrors = 1
        /\ refreshCalls = 2
        /\ access_token = 2
        /\ call[q].used1 = 2
        /\ call[q].outcome = "ok"

\* After a refresh was answered, the token file holds what memory holds.
FileMatchesMemory ==
    access_token >= 1
        => tokenFile = SavedTokens(access_token, refresh_token, expires_at)

\* An instance started from a token file whose expiry is still more than
\* the margin ahead when its first CRM call ends made that call without a
\* token request.
RestartResumes ==
    (/\ restarts > 0
     /\ bootFile # NoFile
     /\ bootFile.access_token # NoToken
     /\ TokenValid(bootFile.expires_at, now)
     /\ call[Operator].pc = "done")
        => /\ refreshCalls = bootCalls
           /\ call[Operator].used1 = bootFile.access_token

\* C14: after every successful refresh the token file holds the same
\* access token, refresh token and expiry as memory, and an instance
\* started from that file more than 2 minutes before the expiry makes its
\* first CRM call without contacting the OAuth endpoint.
C14_FilePersistedAndRestartResumes ==
    FileMatchesMemory /\ RestartResumes

-----------------------------------------------------------------------------
(* Claims on the entry of register_interaction *)

\* C15: if the base URL, an OAuth credential, the pipeline id or the lead
\* status id is missing, register_interaction raises the configuration
\* error before any classifier or extractor call and before any CRM
\* request.
C15_ConfigCheckedFirst ==
    missingConfig # {}
        => /\ entry.classifierCalls = 0
           /\ entry.extractorCalls = 0
           /\ entry.crmRequests = 0
           /\ entry.pc \in {"idle", "done"}
           /\ entry.calls > 0 => entry.outcome = "config_error"

\* C15 witness: with only the lead status id missing a call has ended in
\* the configuration error.
C15_Witness ==
    /\ missingConfig = {"lead_status_id"}
    /\ entry.calls >= 1
    /\ entry.pc = "done"
    /\ entry.outcome = "config_error"

-----------------------------------------------------------------------------
(* Claims on re-invocation and on the follow-up task *)

\* Contacts stored under a key, open leads of a contact in a pipeline,
\* follow-up tasks of a lead for a channel.
ContactsOf(cs, key) == {i \in 1..Len(cs) : cs[i] = key}
OpenLeadsOf(ls, contact, pipe) ==
    {l \in 1..Len(ls) : /\ ls[l].contact = contact
                        /\ ls[l].pipeline = pipe
                        /\ ls[l].open}
FollowUpsOf(ts, lead, channel) ==
    {t \in ts : t.lead = lead /\ t.text = FollowUpText(channel)}

\* C16: a call failed at a remote write after it had created the contact
\* (or the contact and the lead); once a later sequential call with the
\* same identity key and the same detected pipeline has returned, and
\* while nobody has closed a lead of the contact, the CRM holds exactly one
\* contact for the key (the one the failed call created), one open lead for
\* that contact in the pipeline, and one follow-up task for the channel on
\* that lead.
C16_RetryAfterPartialFailure ==
    \A q \in RegCallers :
        (/\ AllRegIdle
         /\ lastSolo # NoPrev
         /\ lastSolo.key # NoKey
         /\ reg[q].outcome = "runtime_error"
         /\ reg[q].newContact
         /\ contacts[reg[q].contact_id] = lastSolo.key
         /\ reg[q].detected = lastSolo.detected
         /\ \A l \in 1..Len(leads) :
               leads[l].contact = lastSolo.contact => leads[l].open)
        => /\ ContactsOf(contacts, lastSolo.key) = {reg[q].contact_id}
           /\ lastSolo.contact = reg[q].contact_id
           /\ ~lastSolo.newContact
           /\ OpenLeadsOf(leads, lastSolo.contact, lastSolo.detected)
                  = {lastSolo.lead}
           /\ reg[q].newLead => ~lastSolo.newLead
           /\ \A ch \in Channels :
                 Cardinality(FollowUpsOf(tasks, lastSolo.lead, ch)) = 1

\* C16 witness: a call created the contact and the lead and then failed;
\* the next call, with the same key and pipeline, has returned, having
\* created neither, and the lead has its follow-up task.
C16_Witness ==
    /\ AllRegIdle
    /\ lastSolo # NoPrev
    /\ lastSolo.key \in Keys
    /\ ~lastSolo.newContact
    /\ ~lastSolo.newLead
    /\ \E q \in RegCallers :
          /\ reg[q].outcome = "runtime_error"
          /\ reg[q].newContact
          /\ reg[q].newLead
          /\ reg[q].contact_id = lastSolo.contact
          /\ reg[q].detected = lastSolo.detected
    /\ Cardinality(FollowUpsOf(tasks, lastSolo.lead, "email")) = 1

\* C17: with register_interaction calls served one after the other, a lead
\* never has more than one task with the text 'Follow-up: <channel>' per
\* channel, and every follow-up task is due max(follow_up_hours, 1) hours
\* after the request that created it, follow_up_hours being that of the
\* payload that reached the lead's contact.
C17_OneFollowUpDueInTime ==
    /\ \A l \in 1..Len(leads), ch \in Channels :
          Cardinality(FollowUpsOf(tasks, l, ch)) <= 1
    /\ \A t \in tasks, ch \in Channels :
          t.text = FollowUpText(ch)
              => LET asked == FollowUpHours(contacts[leads[t.lead].contact])
                 IN  t.dueIn = IF asked >= 1 THEN asked ELSE 1

\* C17 witness: two calls in a row reached the same lead, which has one
\* follow-up task; it was asked for at once and is due in one hour.
C17_Witness ==
    /\ AllRegIdle
    /\ lastSolo # NoPrev /\ prevSolo # NoPrev
    /\ lastSolo.lead = prevSolo.lead
    /\ lastSolo.key = "k1"
    /\ \E t \in tasks :
          /\ FollowUpsOf(tasks, lastSolo.lead, "email") = {t}
          /\ t.dueIn = 1

-----------------------------------------------------------------------------
(* Claims on the notification dispatcher *)

\* What the claim says of a send_notification call that has ended: the
\* primary provider was tried first when configured; the secondary was
\* tried only when the primary is unconfigured or had raised or answered
\* with an error; with neither configured the result is the placeholder
\* and nothing was tried.
ProviderOrderKept ==
    LET cloud == waConfig.cloud_api_token /\ waConfig.cloud_api_phone_id
    IN  /\ waConfig.dialog360_api_key
            => (wa.tried # <<>> /\ wa.tried[1] = "360dialog")
        /\ \A i \in 1..Len(wa.tried) :
              wa.tried[i] = "cloud_api"
                  => /\ cloud
                     /\ \/ ~waConfig.dialog360_api_key
                        \/ (i = 2 /\ wa.answers[1] \in {"failed", "raised"})
        /\ (~waConfig.dialog360_api_key /\ ~cloud)
            => (wa.result = "placeholder" /\ wa.tried = <<>>)

C19_WritesFollowFailedNotification ==
    (/\ wa.pc = "done"
     /\ wa.caller \in {"overdue", "remind"}
     /\ wa.status \in {"failed", "placeholder"})
        => /\ wa.caller = "overdue"
               => /\ wa.outcome = "returned"
                  /\ wa.writes = IF wa.entity THEN <<"task", "note">>
                                  ELSE <<"task">>
           /\ wa.caller = "remind"
               => \/ wa.outcome = "returned"
                     /\ wa.writes = <<"task", "note">>
                  \/ wa.outcome = "error" /\ wa.writes = <<>>

\* C19 witness: both providers failed for the only manager phone, the
\* notification came back 'failed', and the overdue handler has posted
\* the renewal task and the audit note.
C19_Witness ==
    /\ wa.pc = "done"
    /\ wa.caller = "overdue"
    /\ wa.entity
    /\ wa.answers = <<"failed", "raised">>
    /\ wa.status = "failed"
    /\ wa.writes = <<"task", "note">>

-----------------------------------------------------------------------------
(* Claims on the short-circuit of the reminder workflow *)

\* C20: a check_and_remind call that returns 'complete' returns it from
\* the file check, having sent no notification and having written no task
\* and no note.
C20_CompleteHasNoSideEffects ==
    [][(/\ chk.pc # "idle"
        /\ chk'.pc = "idle"
        /\ lastCheck'.status = "complete")
       => /\ chk.pc = "files"
          /\ chk.std = 0 /\ chk.urg = 0
          /\ lastCheck'.std = 0 /\ lastCheck'.urg = 0
          /\ lastSendAt' = lastSendAt
          /\ tasks' = tasks
          /\ notes' = notes
      ]_vars

\* C20 witness: a lead that already has reminder notes and tasks was
\* found complete.
C20_Witness ==
    /\ lastCheck.status = "complete"
    /\ lastCheck.std = 0
    /\ notes # <<>>
    /\ tasks # {}
    /\ DocsIdle

-----------------------------------------------------------------------------
(* Claims on the SLA sweep over the CRM task store *)

\* The task a handler call is about, and what the store and the manager
\* have received since the call was entered.
HandledTask == run.fetched[handling.task]
TasksPosted == SubSeq(crmTasks, handling.tasksBefore + 1, Len(crmTasks))
NotesPosted == SubSeq(crmNotes, handling.notesBefore + 1, Len(crmNotes))
Notifications == SubSeq(notified, handling.sentBefore + 1, Len(notified))

\* The tasks that were in the store before the first sweep are as they
\* were.
OriginalsUntouched == SubSeq(crmTasks, 1, Len(crmTasks0)) = crmTasks0

\* C21: for each task classified overdue the sweep sends one standard
\* notification, then posts one renewal task on the same lead, due 2 hours
\* after the instant of posting and with the original task's responsible
\* operator, then posts one audit note on the lead; the store holds exactly
\* that one new task when the CRM accepts the POST (none when it rejects
\* it), and the original task is never modified, completed or cancelled.
C21_OverdueEscalation ==
    (handling.finished /\ handling.class = "overdue") =>
        /\ Notifications = <<[task |-> handling.task, urgent |-> FALSE]>>
        /\ Len(handling.log) = 3
        /\ handling.log[1] = "notify"
        /\ handling.log[2] \in {"task", "task failed"}
        /\ handling.log[3] \in {"note", "note failed"}
        /\ handling.posted_at >= run.now
        /\ TasksPosted =
              IF handling.log[2] = "task"
              THEN <<[text |-> RenewalText(HandledTask.text),
                      complete_till |->
                          handling.posted_at + 2 * SecondsPerHour,
                      entity_id |-> HandledTask.entity_id,
                      responsible_user_id |->
                          HandledTask.responsible_user_id,
                      is_completed |-> FALSE]>>
              ELSE <<>>
        /\ NotesPosted =
              IF handling.log[3] = "note"
              THEN <<[lead |-> HandledTask.entity_id,
                      title |-> "SLA: Prosrochennaya zadacha"]>>
              ELSE <<>>
        /\ OriginalsUntouched
        /\ crmTasks[handling.task] = HandledTask

\* The handler of an overdue task of the second lead has returned: the
\* notification was sent, the renewal task and the note were accepted, and
\* the clock had advanced between the sweep's reading of the time and the
\* POST.
C21_Witness ==
    /\ handling.finished
    /\ handling.class = "overdue"
    /\ handling.log = <<"notify", "task", "note">>
    /\ HandledTask.entity_id = 2
    /\ handling.posted_at > run.now
    /\ Len(TasksPosted) = 1

\* C22: for each task classified urgent the sweep sends one urgent
\* notification and posts one audit note on the lead (in the store when the
\* CRM accepts it), and creates no task.
C22_UrgentEscalation ==
    (handling.finished /\ handling.class = "urgent") =>
        /\ Notifications = <<[task |-> handling.task, urgent |-> TRUE]>>
        /\ Len(handling.log) = 2
        /\ handling.log[1] = "notify"
        /\ handling.log[2] \in {"note", "note failed"}
        /\ NotesPosted =
              IF handling.log[2] = "note"
              THEN <<[lead |-> HandledTask.entity_id,
                      title |-> "SLA: Kriticheskaya prosrochka"]>>
              ELSE <<>>
        /\ TasksPosted = <<>>
        /\ crmTasks = crmTasks0 \o SubSeq(crmTasks, Len(crmTasks0) + 1,
                                          handling.tasksBefore)

\* The handler of an urgent task has returned with its note accepted, in
\* a sweep that had posted a renewal task for an overdue task before.
C22_Witness ==
    /\ handling.finished
    /\ handling.class = "urgent"
    /\ handling.log = <<"notify", "note">>
    /\ Len(NotesPosted) = 1
    /\ Len(crmTasks) > Len(crmTasks0)

\* C23: running the sweep twice in a row, with no task completed in
\* between, no request failing and the second sweep reading the same time
\* as the first, leaves the tasks of the CRM as one sweep leaves them.
C23_SweepIdempotentInEffect ==
    \A k \in 2..Len(sweepsDone) :
        (/\ sweepsDone[k - 1].clean
         /\ sweepsDone[k].clean
         /\ sweepsDone[k].at = sweepsDone[k - 1].at)
            => sweepsDone[k].tasks = sweepsDone[k - 1].tasks

-----------------------------------------------------------------------------
(* Claims on the HTTP boundary *)

\* C24: a CRM configuration error raised in any CRM operation (register,
\* document tasks, proposal-sent, document check, SLA check, document
\* reminder) is answered with 503, and every other failure with 500.
C24_ConfigErrorIs503 ==
    http.pc = "done" =>
        /\ http.fault = "config" => http.status = 503
        /\ http.fault = "remote" => http.status = 500

-----------------------------------------------------------------------------
(* Claims on concurrent registrations *)

\* C27: for any interleaving of concurrent register_interaction calls,
\* each call looks its lead up and creates it in the pipeline detected for
\* its own text, never in the pipeline detected for another call in flight.
C27_OwnPipeline ==
    \A p \in DOMAIN reg :
        (reg[p].detected # NoPipeline
            /\ reg[p].pc \in {"findLead", "createLead"})
            => reg[p].reqPipeline = reg[p].detected

-----------------------------------------------------------------------------
(* Claims on lead resolution *)

\* The lead lookup of call p has been answered in this step.
LookupAnswered(p) ==
    /\ reg[p].pc = "findLead"
    /\ reg'[p].pc \in {"createLead", "syncLead", "note"}

\* C29: register_interaction creates a new lead exactly when the contact
\* has no open lead in the target pipeline; an open lead of that contact
\* in that pipeline is reused and a closed lead is never returned as the
\* call's lead, so that calls made one after the other leave each contact
\* with at most one open lead per pipeline.
C29_NewLeadIffNoOpenLead ==
    [][\A p \in RegCallers :
          LookupAnswered(p) =>
              LET open == OpenLeadsOf(leads, reg[p].contact_id,
                                      reg[p].reqPipeline)
              IN  IF open = {} THEN reg'[p].pc = "createLead"
                  ELSE reg'[p].lead_id \in open]_vars

-----------------------------------------------------------------------------
(* Claims on the remediation tasks of a lead *)

\* The remediation tasks on the lead for one document, whichever workflow
\* created them.
RemediationTasks(doc) ==
    {t \in tasks : /\ t.lead = DocLead
                   /\ t.text \in {DocTaskText(doc), AttachTaskText(doc)}}

\* C30: after any sequence of ensure_document_completeness,
\* register_interaction (with a checklist) and check_and_remind calls on a
\* lead, at most one remediation task exists on the lead for any given
\* missing document.
C30_OneTaskPerMissingDocument ==
    \A doc \in FileDocKeys : Cardinality(RemediationTasks(doc)) <= 1

-----------------------------------------------------------------------------
(* Claims on the token safety margin *)

\* C28: every CRM request is sent with an access token whose stored expiry
\* lies more than the safety margin after the instant of the token check;
\* a token inside the margin or with unknown expiry is never used without
\* a refresh first, the token a refresh has just returned included.
C28_SentOutsideMargin ==
    [][\A p \in Callers :
          call'[p].attempts > call[p].attempts
              => /\ expires_at' # NoExpiry
                 /\ expires_at' - now' > Margin]_vars

-----------------------------------------------------------------------------
(* Claims on the model capability *)

\* The capability could not be used: no key, an error answer, no answer
\* in time, or a content json.loads or float() does not take.
CapabilityFailed ==
    \/ ~llm.key
    \/ llm.reply.kind \in {"status_error", "timeout"}
    \/ /\ llm.reply.kind = "content"
       /\ LET loaded == JsonLoads(llm.reply.content)
          IN  \/ loaded.raises # "none"
              \/ loaded.type # "dict"
              \/ Get(loaded.members, "confidence", "0.5") = "high"

\* C25: detect_pipeline and extract_deal_data never raise, and when the
\* model capability is unconfigured, answers with an error, times out or
\* returns content that cannot be parsed, the result is exactly the result
\* of the deterministic fallback for the same text.
C25_FallbackOnCapabilityFailure ==
    llm.pc = "done" =>
        /\ llm.raises = "none"
        /\ CapabilityFailed =>
              llm.value = IF llm.op = "detect_pipeline"
                          THEN KeywordDetection(llm.text)
                          ELSE RegexExtraction(llm.text)

\* detect_pipeline has returned the keyword result 'services' for a
\* message with 'montazh' after the capability timed out.
C25_Witness ==
    /\ llm.pc = "done"
    /\ llm.op = "detect_pipeline"
    /\ llm.key
    /\ llm.reply.kind = "timeout"
    /\ llm.text = <<"montazh">>
    /\ llm.raises = "none"
    /\ llm.value.pipeline_type = "services"

\* The JSON object a content holds: from its first opening brace to its
\* last closing brace.
Embedded(content) ==
    LET opens == {i \in 1..Len(content) : content[i] = LeftBrace}
        closes == {i \in 1..Len(content) : content[i] = RightBrace}
    IN  IF opens = {} \/ closes = {} THEN <<>>
        ELSE SubSeq(content, CHOOSE i \in opens : \A j \in opens : i <= j,
                    CHOOSE i \in closes : \A j \in closes : j <= i)

\* The content is a complete object with a number as confidence, in a code
\* fence or next to a sentence.
WrappedObject(content) ==
    /\ Embedded(content) \in Objects
    /\ Embedded(content) # content
    /\ Get(JsonLoads(Embedded(content)).members, "confidence", "0.5")
          # "high"

\* C26: a model response that holds the expected JSON object in a code
\* fence or next to commentary yields the model's decision, not the
\* deterministic fallback.
C26_WrappedJsonIsParsed ==
    (/\ llm.pc = "done"
     /\ llm.key
     /\ llm.reply.kind = "content"
     /\ WrappedObject(llm.reply.content))
        => llm.value =
              Guarded(llm.op, llm.text,
                      [kind |-> "content",
                       content |-> Embedded(llm.reply.content)]).value

-----------------------------------------------------------------------------
(* Claims on the status of a notification *)

\* A provider is configured: 360dialog by its key, the Cloud API by its
\* token and phone id.
AnyProviderConfigured ==
    \/ waConfig.dialog360_api_key
    \/ waConfig.cloud_api_token /\ waConfig.cloud_api_phone_id

\* C32: with at least one provider configured, send_notification returns
\* 'sent' or 'failed', and 'failed' when every configured provider failed
\* by raising or by a non-success response; 'placeholder' is returned only
\* when no provider is configured.
C32_AllProvidersFailedIsFailed ==
    wa.result # "none" =>
        /\ AnyProviderConfigured =>
              /\ wa.result \in {"sent", "failed"}
              /\ (\A i \in 1..Len(wa.answers) : wa.answers[i] # "sent")
                    => wa.result = "failed"
        /\ wa.result = "placeholder" => ~AnyProviderConfigured

-----------------------------------------------------------------------------
(* Claims on the pipeline decision *)

\* C33: every result of detect_pipeline, on the model-based path and on
\* the fallback path, has pipeline_type in {sales, nku, services} and a
\* confidence between 0 and 1.
C33_DecisionInRange ==
    (llm.pc = "done" /\ llm.op = "detect_pipeline" /\ llm.raises = "none")
        => /\ llm.value.pipeline_type \in {"sales", "nku", "services"}
           /\ llm.value.confidence >= 0
           /\ llm.value.confidence <= 100

\* The keyword count of the winning category of the classified text, zero
\* when sales wins by default.
WinningMatches ==
    IF clsResult.pipeline_type = "nku" THEN Score(clsText, nku_keywords)
    ELSE IF clsResult.pipeline_type = "services"
    THEN Score(clsText, services_keywords)
    ELSE 0

\* min(0.7, 0.4 + 0.1 x matches), in hundredths.
CappedConfidence(matches) ==
    IF 40 + 10 * matches <= 70 THEN 40 + 10 * matches ELSE 70

\* What holds of every fallback confidence: between 0.4 and 0.7, and at
\* least 0.4 for a text with nku keywords only.
FallbackConfidenceBounds ==
    /\ clsResult.confidence >= 40
    /\ clsResult.confidence <= 70
    /\ (Score(clsText, nku_keywords) > 0
           /\ Score(clsText, services_keywords) = 0)
          => (clsResult.pipeline_type = "nku"
                 /\ clsResult.confidence >= 40)

\* C34 (as stated): the fallback's confidence equals min(0.7, 0.4 + 0.1 x
\* matches) with matches the keyword count of the winning category, zero
\* when sales wins by default.
C34_ConfidenceFormulaAlways ==
    clsResult # NoResult =>
        /\ clsResult.confidence = CappedConfidence(WinningMatches)
        /\ FallbackConfidenceBounds

\* C34 (amended): the confidence equals min(0.7, 0.4 + 0.1 x matches) when
\* nku or services wins and 0.5 when sales wins by default; it lies
\* between 0.4 and 0.7 and is at least 0.4 for a text with nku keywords
\* only.
C34_FallbackConfidence ==
    clsResult # NoResult =>
        /\ clsResult.confidence =
              IF clsResult.pipeline_type = "sales" THEN 50
              ELSE CappedConfidence(WinningMatches)
        /\ FallbackConfidenceBounds

\* A text with four nku keywords and no services keyword is classified
\* nku with confidence 0.7, the cap.
C34_Witness ==
    /\ clsResult # NoResult
    /\ Score(clsText, nku_keywords) = 4
    /\ Score(clsText, services_keywords) = 0
    /\ clsResult.pipeline_type = "nku"
    /\ clsResult.confidence = 70

-----------------------------------------------------------------------------
(* Claims on contacts: duplicates and payloads without identity *)

\* Two contacts of the CRM carry the same identity key.
DuplicateContact ==
    \E i, j \in 1..Len(contacts) :
        i < j /\ contacts[i] = contacts[j] /\ contacts[i] # NoKey

\* C35: two concurrent register_interaction calls for the same identity
\* key can interleave between the contact lookup that finds nothing and
\* the contact create, so that two contacts are created for the key; the
\* resolver does not prevent it.  Two contacts with one key come from
\* calls that overlapped, never from calls made one after the other.
C35_DuplicateOnlyByOverlap ==
    DuplicateContact =>
        \A p \in RegCallers : regStarted >= 2 /\ ~reg[p].alone

\* Both calls for the key k1 looked the contact up before either created
\* it; both have returned and the CRM holds two contacts with the key.
C35_Witness ==
    /\ contacts = <<"k1", "k1">>
    /\ \A p \in RegCallers :
          /\ reg[p].pc = "idle"
          /\ reg[p].outcome = "ok"

\* C39: a register_interaction call whose contact has neither email nor
\* phone makes no contact lookup and creates a new contact on every call,
\* so repeating the call returns a different contact id each time.
C39_NoIdentityAlwaysCreates ==
    /\ \A p \in RegCallers :
          reg[p].pc \in {"findContact", "updateContact"}
              => reg[p].key # NoKey
    /\ (lastSolo # NoPrev /\ lastSolo.key = NoKey)
          => /\ lastSolo.newContact
             /\ (prevSolo # NoPrev /\ prevSolo.key = NoKey)
                   => lastSolo.contact # prevSolo.contact

\* Two calls in a row without email and phone have returned, each with a
\* contact it created.
C39_Witness ==
    /\ prevSolo # NoPrev
    /\ lastSolo # NoPrev
    /\ prevSolo.key = NoKey
    /\ lastSolo.key = NoKey
    /\ prevSolo.newContact
    /\ lastSolo.newContact
    /\ lastSolo.contact # prevSolo.contact

-----------------------------------------------------------------------------
(* Claims on the termination of the token check *)

\* The lock is held only by a caller inside _refresh_token, and one
\* refresh request at most is in flight.
LockHeldInsideRefresh ==
    /\ lockHolder # NoHolder => call[lockHolder].pc \in {"oauth", "wait"}
    /\ Cardinality({p \in Callers : call[p].pc = "oauth"}) <= 1
    /\ (\A p \in Callers : call[p].pc \notin {"wait", "oauth"})
          => (lockHolder = NoHolder /\ lockWaiters = <<>>)

\* C36: every caller of the token check terminates, by returning or by
\* raising, for any interleaving of concurrent callers and any mix of
\* refresh successes, refresh errors and missing refresh token, provided
\* each network call terminates; the token lock is never left held and at
\* most one refresh request is in flight at any instant.
C36_TokenCheckTerminates ==
    /\ []LockHeldInsideRefresh
    /\ \A p \in Callers :
          (call[p].pc \in {"wait", "oauth"})
              ~> (call[p].pc \notin {"wait", "oauth"})

\* Every caller saw the token as expired; the first refresh failed and
\* raised into its caller, the caller queued behind it was handed the lock
\* and made its own refresh; the lock is free again.
C36_Witness ==
    /\ Observers = Callers
    /\ refreshErrors >= 1
    /\ refreshCalls >= 2
    /\ \E p \in Callers :
          call[p].pc = "done" /\ call[p].outcome = "runtime_error"
    /\ \A p \in Callers : call[p].pc \notin {"idle", "wait", "oauth"}
    /\ lockHolder = NoHolder

-----------------------------------------------------------------------------
(* Claims on the reminder note *)

\* C37: whenever check_and_remind sends a standard reminder notification,
\* a reminder note matching the cool-down marker is on the lead when the
\* call returns, also when listing tasks, creating tasks or writing the
\* note fails, so that the next call within 24 hours is suppressed.
C37_ReminderLeavesNote ==
    (lastCheck # NoCheck /\ lastCheck.std = 1)
        => \E i \in 1..Len(notes) :
              /\ notes[i].created_at = lastCheck.at
              /\ \E m \in CooldownMarkers : Contains(notes[i].text, m)

-----------------------------------------------------------------------------
(* Claims on the counts of a sweep *)

\* C40: in every sweep result notifications_sent equals overdue + urgent,
\* whether the dispatcher reported each notification as sent, failed or
\* placeholder, and overdue + urgent never exceeds checked.
C40_SweepCounts ==
    sweep.pc = "done" =>
        /\ sweep.notifications_sent = sweep.overdue + sweep.urgent
        /\ sweep.notifications_sent = Len(sweep.reported)
        /\ sweep.overdue + sweep.urgent <= sweep.checked

\* A sweep has returned after an urgent task and an overdue task were
\* handled, the dispatcher having reported failed for one and placeholder
\* for the other.
C40_Witness ==
    /\ sweep.pc = "done"
    /\ sweep.urgent = 1
    /\ sweep.overdue = 1
    /\ sweep.notifications_sent = 2
    /\ \E i, j \in 1..Len(sweep.reported) :
          sweep.reported[i] = "failed" /\ sweep.reported[j] = "placeholder"

-----------------------------------------------------------------------------
(* Claims on concurrent reminders *)

\* C38: for any interleaving of concurrent check_and_remind calls on the
\* same lead with documents missing, at most one standard reminder
\* notification is sent for the lead within any 24-hour window (every CRM
\* request of the calls being answered successfully).
C38_OneReminderPerWindow ==
    remClean =>
        \A i, j \in 1..Len(remSent) :
            i < j =>
                remSent[j].at - remSent[i].at >= reminder_interval_hours

-----------------------------------------------------------------------------
(* Claims on document tasks and completed tasks *)

\* Texts of the open tasks of a lead.
OpenTaskTexts(lead) ==
    {t.text : t \in {u \in tasks \ doneTasks : u.lead = lead}}

\* C31: ensure_document_completeness skips a missing document only when a
\* task with the identical text is among the lead's open tasks; when the
\* only such task is completed a new task is created, due in 8 hours.
C31_SkipOnlyForOpenTask ==
    [][/\ (ens.pc = "list" /\ (ens'.pc = "post" \/ lastEnsure' # NoEnsure))
          => ens'.todo = {d \in ens.docs :
                             DocTaskText(d) \notin OpenTaskTexts(DocLead)}
       /\ (ens.pc = "post" /\ tasks' # tasks)
          => \A t \in tasks' \ tasks : t.dueIn = DocTaskDueHours]_vars

====
